---- MODULE Spec2Model ----
(***************************************************************************)
(* Model of the privacy-preserving purchase flow of the bookstore API:     *)
(* the persisted purchases table, the Stripe webhook, the per-connection   *)
(* WebSocket session handler (handlePurchaseConnection) with its           *)
(* asynchronous message handlers, and the SemiHonestOtSender engine.       *)
(*                                                                         *)
(* Every `await` of a handler is a step boundary: the part of a handler    *)
(* that runs synchronously up to an await is one action, and the awaited   *)
(* operation together with the continuation that follows it is the next.   *)
(* A handler that is parked at an await is a "task" of its session.        *)
(***************************************************************************)
EXTENDS Integers, Sequences, FiniteSets, TLC

(***************************************************************************)
(* Bounds of the model.                                                    *)
(***************************************************************************)
MaxSessions == 2     \* WebSocket connections that are opened
MaxInit == 2         \* INIT messages handled, over all connections
MaxProve == 2        \* ZKP_PROVE messages handled, over all connections
MaxAck == 1          \* DOWNLOAD_READY messages handled, over all connections
MaxOtAck == 2        \* OT_ACK_START messages handled
MaxRoundMsgs == 4    \* OT_ROUND_RESPONSE messages handled
MaxComplete == 2     \* OT_ROUNDS_COMPLETE messages handled
MaxUrlReq == 2       \* REQUEST_SIGNED_URL messages handled
MaxInflight == 2     \* handlers of one connection parked at an await
MaxBooks == 2        \* rows of the books table in the session model
MaxCatalog == 5      \* rows of the books table in the engine model
MaxTicks == 1        \* cap on the interval ticks of one poller in the session model

maxAttempts == 10    \* purchase.ts: const maxAttempts = 10

Null == "null"

MsgTypes ==
    {"INIT", "ZKP_PROVE", "OT_ACK_START", "OT_ROUND_RESPONSE", "OT_ROUNDS_COMPLETE",
     "REQUEST_SIGNED_URL", "DOWNLOAD_READY"}

Sessions == 1..MaxSessions
PurchaseIds == {"p1", "p2"}
Users == {"u1", "u2"}
Nullifiers == {"n1", "n2"}

\* purchases.user_id and purchases.commitment as written by POST /api/orders
OwnerOf(p) == "u1"
CommitmentOf(p) == IF p = "p1" THEN "c1" ELSE "c2"
Commitments == {CommitmentOf(p) : p \in PurchaseIds}

\* bearer tokens: "bad" fails verifyJwt, "nosub" verifies but has no string
\* subject, and a user name stands for a valid token whose sub is that user
Tokens == {"bad", "nosub"} \cup Users

\* ZKP_PROVE payloads: publicSignals = <<nullifier, root, commitment>>, and
\* ok is what groth16.verify returns for (publicSignals, proof)
Proofs == [nullifier : Nullifiers, commitment : Commitments, ok : BOOLEAN]

VARIABLES
    purchases,   \* the purchases table: id -> row
    books,       \* the books table, ordered by id: sequence of secret keys
    sess,        \* per connection: ws state and sessionState of the closure
    tasks,       \* per connection: handlers parked at an await
    pollers,     \* per connection: the intervals started by INIT
    hist,        \* per connection: history of what the handlers did
    rcvd,        \* inbound messages handled so far, by type
    proc,        \* the server process: "up", or "down" after it has exited
    view         \* per observed connection: the messages the server received

vars == <<purchases, books, sess, tasks, pollers, hist, rcvd, proc, view>>

(***************************************************************************)
(* Generic helpers.                                                        *)
(***************************************************************************)
RemoveAt(q, i) == [j \in 1..(Len(q) - 1) |-> IF j < i THEN q[j] ELSE q[j + 1]]

RECURSIVE Pow2(_)
Pow2(n) == IF n = 0 THEN 1 ELSE 2 * Pow2(n - 1)

\* Math.ceil(Math.log2(n)) for n >= 1: the least b with 2^b >= n
RECURSIVE CeilLog2From(_, _)
CeilLog2From(n, b) == IF Pow2(b) >= n THEN b ELSE CeilLog2From(n, b + 1)
CeilLog2(n) == CeilLog2From(n, 0)

\* (i >> j) & 1
Bit(i, j) == (i \div Pow2(j)) % 2

\* bitwise exclusive-or of two naturals (Buffer bytes xor-ed position by position)
RECURSIVE Xor(_, _)
Xor(a, b) ==
    IF a = 0 THEN b
    ELSE IF b = 0 THEN a
    ELSE ((a + b) % 2) + 2 * Xor(a \div 2, b \div 2)

(***************************************************************************)
(* The ws connection.  close() starts the closing handshake: readyState    *)
(* leaves OPEN, later close() calls do nothing, and send() on a socket     *)
(* that is not OPEN drops the message.  Inbound messages are still         *)
(* delivered until the peer's close frame arrives ("closing").             *)
(***************************************************************************)
wsSend(ss, m) ==
    IF ss.conn = "open" THEN [ss EXCEPT !.out = Append(@, m)] ELSE ss

wsClose(ss, code, reason) ==
    IF ss.conn = "open"
    THEN [ss EXCEPT !.conn = "closing", !.closeCode = code, !.closeReason = reason]
    ELSE ss

Budget(ty) ==
    CASE ty = "INIT" -> MaxInit
      [] ty = "ZKP_PROVE" -> MaxProve
      [] ty = "DOWNLOAD_READY" -> MaxAck
      [] ty = "OT_ACK_START" -> MaxOtAck
      [] ty = "OT_ROUND_RESPONSE" -> MaxRoundMsgs
      [] ty = "OT_ROUNDS_COMPLETE" -> MaxComplete
      [] ty = "REQUEST_SIGNED_URL" -> MaxUrlReq

\* the socket still emits 'message' events
Delivers(s) == sess[s].conn \in {"open", "closing"}

\* an inbound message as the listener parses it; fields a type lacks are blank
InMsg(ty) ==
    [type |-> ty, token |-> "", nullifier |-> "", commitment |-> "", ok |-> FALSE,
     round |-> -1, clientPublicKey |-> "", bookIndex |-> -1]

\* the message is received on connection s
Seen(s, m) ==
    IF s \in DOMAIN view THEN [view EXCEPT ![s] = Append(@, m)] ELSE view
CanPark(s) == Len(tasks[s]) < MaxInflight

Task(kind, pc, arg, poller) == [kind |-> kind, pc |-> pc, arg |-> arg, poller |-> poller]

(***************************************************************************)
(* SQL statements on the purchases table, each atomic in the store.        *)
(***************************************************************************)
\* the same SELECT without its user_id condition
SelectPurchaseAnyUser(pid, uid) ==
    << [user_id |-> purchases[pid].user_id,
        status |-> purchases[pid].status,
        commitment |-> purchases[pid].commitment] >>

\* SELECT user_id, status, commitment FROM purchases WHERE id = $1 AND user_id = $2
SelectPurchase(pid, uid) ==
    IF purchases[pid].user_id = uid
    THEN << [user_id |-> purchases[pid].user_id,
             status |-> purchases[pid].status,
             commitment |-> purchases[pid].commitment] >>
    ELSE << >>

\* the unique index on purchases.nullifier_hash (error code 23505)
UniqueViolation(pid, n) ==
    \E q \in PurchaseIds : q # pid /\ purchases[q].nullifier_hash = n

\* UPDATE purchases SET status = 'verified', nullifier_hash = $1
\*   WHERE id = $2 AND status = 'paid'
\* result: the row count, or the code of the error the statement raised
UpdateVerifiedAnyStatus(pid) == TRUE
UpdateVerifiedMatches(pid) == purchases[pid].status = "paid"

\* the same statement on a table without the unique index
UpdateVerifiedResultNoIndex(pid, n) ==
    IF ~UpdateVerifiedMatches(pid) THEN "0" ELSE "1"

UpdateVerifiedResult(pid, n) ==
    IF ~UpdateVerifiedMatches(pid) THEN "0"
    ELSE IF UniqueViolation(pid, n) THEN "23505"
    ELSE "1"

\* the same statement writing whatever the status of the row is
UpdateVerifiedTableAnyStatus(pid, n) ==
    IF UniqueViolation(pid, n)
    THEN purchases
    ELSE [purchases EXCEPT ![pid].status = "verified", ![pid].nullifier_hash = n]

\* the same statement with its first parameter also stored as the commitment
UpdateVerifiedTableWithCommitment(pid, n) ==
    IF UpdateVerifiedResult(pid, n) = "1"
    THEN [purchases EXCEPT ![pid].status = "verified", ![pid].nullifier_hash = n,
                           ![pid].commitment = n]
    ELSE purchases

UpdateVerifiedTable(pid, n) ==
    IF UpdateVerifiedResult(pid, n) = "1"
    THEN [purchases EXCEPT ![pid].status = "verified", ![pid].nullifier_hash = n]
    ELSE purchases

\* a final update that writes nothing
UpdateCompletedNothing(pid) == purchases

\* the final update without its WHERE clause
UpdateCompletedTableEveryRow(pid) ==
    [p \in PurchaseIds |-> [purchases[p] EXCEPT !.status = "completed"]]

\* UPDATE purchases SET status = 'completed' WHERE id = $1
UpdateCompletedTable(pid) == [purchases EXCEPT ![pid].status = "completed"]

\* the webhook's update without its condition on the status
UpdatePaidTableAnyStatus(pid) == [purchases EXCEPT ![pid].status = "paid"]

\* UPDATE purchases SET status = 'paid'
\*   WHERE stripe_payment_intent_id = $1 AND status = 'pending' RETURNING id
UpdatePaidTable(pid) ==
    IF purchases[pid].status = "pending"
    THEN [purchases EXCEPT ![pid].status = "paid"]
    ELSE purchases

\* SELECT id, file_key, secret_key FROM books ORDER BY id
BookRow(i) == [file_key |-> i, secret_key |-> i]
Catalog(n) == [i \in 1..n |-> BookRow(i)]

(***************************************************************************)
(* ot_crypto.ts, symbolically.  A private key is an identifier and its     *)
(* public key is the point with that discrete logarithm; the hashed ECDH   *)
(* secret of two key pairs is identified by the pair of their private      *)
(* keys.  "invalid" is a byte string that decodes to no curve point.       *)
(***************************************************************************)
\* the key pair generateServerOtKeyPair() draws for a branch of a round
generateServerOtKeyPair(round, branch) ==
    [privateKey |-> <<round, branch>>, publicKey |-> <<round, branch>>]

\* a derivation that fails for a point whose private key the peer does not hold
deriveServerSharedSecretKnownOnly(serverPrivateKey, clientPublicKey) ==
    [threw |-> (clientPublicKey # "known"),
     dh |-> [server |-> serverPrivateKey, client |-> clientPublicKey]]

\* a derivation that accepts any byte string as the client's point
deriveServerSharedSecretAnyPoint(serverPrivateKey, clientPublicKey) ==
    [threw |-> FALSE,
     dh |-> [server |-> serverPrivateKey, client |-> clientPublicKey]]

\* sha256(p256.getSharedSecret(serverPrivateKey, clientPublicKey)); getSharedSecret
\* throws when clientPublicKey is no point of the curve
deriveServerSharedSecret(serverPrivateKey, clientPublicKey) ==
    [threw |-> (clientPublicKey = "invalid"),
     dh |-> [server |-> serverPrivateKey, client |-> clientPublicKey]]

\* Buffer.concat([iv, ciphertext, authTag]) of AES-256-GCM under key
aesGcmEncrypt(key, plaintext) ==
    [layout |-> <<"iv", "ciphertext", "authTag">>, key |-> key, plaintext |-> plaintext]

\* what decrypting blob with key k yields
aesGcmDecrypt(k, blob) ==
    IF blob.key = k THEN [ok |-> TRUE, plaintext |-> blob.plaintext]
    ELSE [ok |-> FALSE, plaintext |-> "AuthenticationFailed"]

(***************************************************************************)
(* class SemiHonestOtSender.  A seed is randomBytes(32); the 2b seeds of   *)
(* an engine are independent, which this model keeps by drawing them as    *)
(* distinct unit bit-vectors, so that the exclusive-or of two different    *)
(* sets of seeds differs (as it does for random seeds but for a            *)
(* probability of 2^-256).                                                 *)
(***************************************************************************)
NoSender ==
    [created |-> FALSE, bookSecrets |-> << >>, choiceBitCount |-> 0,
     currentRound |-> 0, roundSeeds |-> << >>]

\* this.roundSeeds.push({ seed0: randomBytes(32), seed1: randomBytes(32) })
RandomSeedPair(j) == [seed0 |-> Pow2(2 * j), seed1 |-> Pow2(2 * j + 1)]

\* the same count with the logarithm rounded down
ChoiceBitCountFloor(n) ==
    IF n > 1
    THEN IF Pow2(CeilLog2(n)) = n THEN CeilLog2(n) ELSE CeilLog2(n) - 1
    ELSE 0

\* books.length > 1 ? Math.ceil(Math.log2(books.length)) : 0
ChoiceBitCount(n) == IF n > 1 THEN CeilLog2(n) ELSE 0

\* constructor(ws, books); roundSeeds[j + 1] is the source's roundSeeds[j]
SemiHonestOtSender(bks) ==
    [created |-> TRUE,
     bookSecrets |-> [i \in 1..Len(bks) |-> bks[i].secret_key],
     choiceBitCount |-> ChoiceBitCount(Len(bks)),
     currentRound |-> 0,
     roundSeeds |-> [j \in 1..ChoiceBitCount(Len(bks)) |-> RandomSeedPair(j - 1)]]

\* the selection with its two branches exchanged
SelectedSeedSwapped(ot, i, j) ==
    IF Bit(i, j) = 0 THEN ot.roundSeeds[j + 1].seed1 ELSE ot.roundSeeds[j + 1].seed0

\* the seed of round j that sendFinalSecrets selects for item i
SelectedSeed(ot, i, j) ==
    IF Bit(i, j) = 0 THEN ot.roundSeeds[j + 1].seed0 ELSE ot.roundSeeds[j + 1].seed1

\* the inner loops of sendFinalSecrets: masterKey of item i after rounds 0..j-1
RECURSIVE MasterKey(_, _, _)
MasterKey(ot, i, j) ==
    IF j = 0 THEN 0
    ELSE Xor(MasterKey(ot, i, j - 1), SelectedSeed(ot, i, j - 1))

\* sendFinalSecrets(): item i of the source is bookSecrets[i + 1] here
FinalEncryptedSecrets(ot) ==
    [i \in 1..Len(ot.bookSecrets) |->
        aesGcmEncrypt(MasterKey(ot, i - 1, ot.choiceBitCount), ot.bookSecrets[i])]

sendFinalSecrets(ss) ==
    wsSend(ss, [type |-> "OT_DELIVER",
                encryptedSecrets |-> FinalEncryptedSecrets(ss.otSender)])

\* a start() that never offers a round
startDeliversAtOnce(ss) == sendFinalSecrets(ss)

\* a start() that offers round 0 whatever the number of rounds is
startOffersRoundZero(ss) == wsSend(ss, [type |-> "OT_ROUND_START", round |-> 0])

\* start()
start(ss) ==
    IF ss.otSender.choiceBitCount = 0
    THEN sendFinalSecrets(ss)
    ELSE wsSend(ss, [type |-> "OT_ROUND_START", round |-> 0])

\* the OT_ROUND_CHALLENGE of a round for a client key that is a curve point
RoundChallenge(ot, round, clientPublicKey) ==
    [type |-> "OT_ROUND_CHALLENGE",
     round |-> round,
     g0 |-> generateServerOtKeyPair(round, 0).publicKey,
     g1 |-> generateServerOtKeyPair(round, 1).publicKey,
     e0 |-> aesGcmEncrypt(
              deriveServerSharedSecret(generateServerOtKeyPair(round, 0).privateKey,
                                       clientPublicKey).dh,
              ot.roundSeeds[round + 1].seed0),
     e1 |-> aesGcmEncrypt(
              deriveServerSharedSecret(generateServerOtKeyPair(round, 1).privateKey,
                                       clientPublicKey).dh,
              ot.roundSeeds[round + 1].seed1)]

\* processRoundResponse without its comparison of the round with currentRound
processRoundResponseAnyRound(ss, round, clientPublicKey) ==
    IF round < 0 \/ round >= Len(ss.otSender.roundSeeds)
    THEN wsClose(ss, 1011, "[OT] round seed not found.")
    ELSE IF deriveServerSharedSecret(generateServerOtKeyPair(round, 0).privateKey,
                                     clientPublicKey).threw
    THEN wsClose(ss, 1011, "OT protocol processing failed.")
    ELSE LET sent == wsSend(ss, RoundChallenge(ss.otSender, round, clientPublicKey))
             adv == [sent EXCEPT !.otSender.currentRound = @ + 1]
         IN  IF adv.otSender.currentRound < adv.otSender.choiceBitCount
             THEN wsSend(adv, [type |-> "OT_ROUND_START",
                               round |-> adv.otSender.currentRound])
             ELSE adv

\* processRoundResponse offering the next round before it answers this one
processRoundResponseBeginFirst(ss, round, clientPublicKey) ==
    IF round # ss.otSender.currentRound
    THEN wsClose(ss, 1011, "[OT] round mismatch.")
    ELSE IF round >= Len(ss.otSender.roundSeeds)
    THEN wsClose(ss, 1011, "[OT] round seed not found.")
    ELSE IF deriveServerSharedSecret(generateServerOtKeyPair(round, 0).privateKey,
                                     clientPublicKey).threw
    THEN wsClose(ss, 1011, "OT protocol processing failed.")
    ELSE LET adv == [ss EXCEPT !.otSender.currentRound = @ + 1]
             begun == IF adv.otSender.currentRound < adv.otSender.choiceBitCount
                      THEN wsSend(adv, [type |-> "OT_ROUND_START",
                                        round |-> adv.otSender.currentRound])
                      ELSE adv
         IN  wsSend(begun, RoundChallenge(ss.otSender, round, clientPublicKey))

\* processRoundResponse(payload)
processRoundResponse(ss, round, clientPublicKey) ==
    IF round # ss.otSender.currentRound
    THEN wsClose(ss, 1011, "[OT] round mismatch.")
    ELSE IF round >= Len(ss.otSender.roundSeeds)
    THEN wsClose(ss, 1011, "[OT] round seed not found.")
    ELSE IF deriveServerSharedSecret(generateServerOtKeyPair(round, 0).privateKey,
                                     clientPublicKey).threw
    THEN wsClose(ss, 1011, "OT protocol processing failed.")
    ELSE LET sent == wsSend(ss, RoundChallenge(ss.otSender, round, clientPublicKey))
             adv == [sent EXCEPT !.otSender.currentRound = @ + 1]
         IN  IF adv.otSender.currentRound < adv.otSender.choiceBitCount
             THEN wsSend(adv, [type |-> "OT_ROUND_START",
                               round |-> adv.otSender.currentRound])
             ELSE adv

(***************************************************************************)
(* handlePurchaseConnection: the closure state of one connection.          *)
(***************************************************************************)
NoPurchase == [set |-> FALSE, user_id |-> "", status |-> "", commitment |-> ""]

NewSession(pid) ==
    [conn |-> "open", purchaseId |-> pid,
     userId |-> "", purchase |-> NoPurchase, otSender |-> NoSender, books |-> << >>,
     out |-> << >>, closeCode |-> 0, closeReason |-> ""]

NoSession == [NewSession("") EXCEPT !.conn = "none"]

NoHist ==
    [ownerToken |-> FALSE,   \* an INIT token verified whose sub owns the purchase
     readPaid |-> FALSE,     \* a status read of the session returned paid
     verifierCalls |-> 0,    \* invocations of groth16.verify
     verifierFailed |-> FALSE, \* groth16.verify returned false for a proof
     accepted |-> FALSE,     \* a conditional update of the session affected a row
     refused |-> FALSE]      \* a conditional update of the session affected no row
                             \* or raised an error

(***************************************************************************)
(* An exception that escapes an async listener or an async interval        *)
(* callback is an unhandled promise rejection.  index.ts installs no       *)
(* handler for it, and the Node.js releases this code runs on then end     *)
(* the process: every socket is torn down, the timers and the parked       *)
(* handlers are gone.  A statement that was already sent to the store may  *)
(* still be executed there.                                                *)
(***************************************************************************)
IsStatement(t) == t.pc = "update"

ExitedSess ==
    [s \in Sessions |->
        IF sess[s].conn \in {"open", "closing"}
        THEN [sess[s] EXCEPT !.conn = "closed"] ELSE sess[s]]

ExitedTasks(ts) == [s \in Sessions |-> SelectSeq(ts[s], IsStatement)]

ExitedPollers ==
    [s \in Sessions |->
        [k \in 1..Len(pollers[s]) |-> [pollers[s][k] EXCEPT !.active = FALSE]]]

\* handleInitLogic(), from the result of its SELECT on
HandleInitLogic(ss, rows) ==
    IF Len(rows) = 0
    THEN [ss |-> wsClose(ss, 1011, "purchase record not found."), ret |-> "undefined"]
    ELSE IF rows[1].status = "paid"
    THEN [ss |-> wsSend([ss EXCEPT !.purchase =
                            [set |-> TRUE, user_id |-> rows[1].user_id,
                             status |-> rows[1].status,
                             commitment |-> rows[1].commitment]],
                        [type |-> "ZKP_READY"]),
          ret |-> "true"]
    ELSE IF rows[1].status # "pending"
    THEN [ss |-> wsClose(ss, 1011, "invalid purchase status"), ret |-> "undefined"]
    ELSE [ss |-> ss, ret |-> "false"]

Init ==
    /\ purchases \in
         [PurchaseIds -> [user_id : Users, status : {"pending", "verified"},
                          commitment : Commitments, nullifier_hash : {Null, "n1"}]]
    /\ \A p \in PurchaseIds :
         /\ purchases[p].user_id = OwnerOf(p)
         /\ purchases[p].commitment = CommitmentOf(p)
    \* p1 is a fresh order; p2 is an order whose proof (nullifier n1) an earlier
    \* session has accepted
    /\ purchases["p1"].status = "pending" /\ purchases["p1"].nullifier_hash = Null
    /\ purchases["p2"].status = "verified" /\ purchases["p2"].nullifier_hash = "n1"
    /\ books = Catalog(MaxBooks)
    /\ sess = [s \in Sessions |-> NoSession]
    /\ tasks = [s \in Sessions |-> << >>]
    /\ pollers = [s \in Sessions |-> << >>]
    /\ hist = [s \in Sessions |-> NoHist]
    /\ rcvd = [ty \in MsgTypes |-> 0]
    /\ proc = "up"
    /\ view = << >>

\* index.ts wss.on('connection'): a connection for /ws/api/purchase/<pid>.
\* Connections are numbered in the order they are opened; the first is for p1.
Connect(s, pid) ==
    /\ proc = "up"
    /\ sess[s].conn = "none"
    /\ \A r \in Sessions : r < s => sess[r].conn # "none"
    /\ s = 1 => pid = "p1"
    /\ sess' = [sess EXCEPT ![s] = NewSession(pid)]
    /\ UNCHANGED <<purchases, books, tasks, pollers, hist>>
    /\ UNCHANGED <<rcvd, proc, view>>

\* a close that puts the order of the connection back to pending
ClientCloseRevertsPurchase(s) ==
    /\ proc = "up"
    /\ sess[s].conn \in {"open", "closing"}
    /\ sess' = [sess EXCEPT ![s].conn = "closed"]
    /\ purchases' = [purchases EXCEPT ![sess[s].purchaseId].status = "pending",
                                      ![sess[s].purchaseId].nullifier_hash = Null]
    /\ UNCHANGED <<books, tasks, pollers, hist>>
    /\ UNCHANGED <<rcvd, proc, view>>

\* the peer closes the socket, or answers the server's close frame
ClientClose(s) ==
    /\ proc = "up"
    /\ sess[s].conn \in {"open", "closing"}
    /\ sess' = [sess EXCEPT ![s].conn = "closed"]
    /\ UNCHANGED <<purchases, books, tasks, pollers, hist>>
    /\ UNCHANGED <<rcvd, proc, view>>

\* webhook.post('/stripe') for a payment_intent.succeeded event of purchase pid
Webhook(pid, dbOk) ==
    /\ proc = "up"
    /\ purchases' = IF dbOk THEN UpdatePaidTable(pid) ELSE purchases
    /\ UNCHANGED <<books, sess, tasks, pollers, hist>>
    /\ UNCHANGED <<rcvd, proc, view>>

\* case 'INIT', up to the first SELECT of handleInitLogic
OnInit(s, token) ==
    /\ proc = "up"
    /\ Delivers(s)
    /\ view' = Seen(s, [InMsg("INIT") EXCEPT !.token = token])
    /\ LET ss == sess[s] IN
       IF token = "bad"
       THEN /\ sess' = [sess EXCEPT ![s] = wsClose(ss, 1011, "authentication failed.")]
            /\ UNCHANGED <<tasks, hist>>
       ELSE IF token = "nosub"
       THEN /\ sess' = [sess EXCEPT ![s] = wsClose(ss, 1011, "invalid token.")]
            /\ UNCHANGED <<tasks, hist>>
       ELSE /\ CanPark(s)
            /\ sess' = [sess EXCEPT ![s] = [ss EXCEPT !.userId = token]]
            /\ tasks' = [tasks EXCEPT ![s] = Append(@, Task("INIT", "query", token, 0))]
            /\ hist' = [hist EXCEPT ![s].ownerToken =
                          @ \/ token = purchases[ss.purchaseId].user_id]
    /\ UNCHANGED <<purchases, books, pollers>>
    /\ UNCHANGED proc

\* the 'message' listener is run for an INIT message
ReceiveInit(s, token) ==
    /\ rcvd["INIT"] < Budget("INIT")
    /\ rcvd' = [rcvd EXCEPT !["INIT"] = @ + 1]
    /\ OnInit(s, token)

\* case 'INIT', from the result of the first handleInitLogic on
InitQuery(s, i, dbOk) ==
    /\ proc = "up"
    /\ i \in 1..Len(tasks[s])
    /\ tasks[s][i].kind = "INIT"
    /\ tasks' = [tasks EXCEPT ![s] = RemoveAt(@, i)]
    /\ IF ~dbOk
       THEN /\ sess' = [sess EXCEPT ![s] = wsClose(@, 1011, "authentication failed.")]
            /\ UNCHANGED <<pollers, hist>>
       ELSE LET rows == SelectPurchase(sess[s].purchaseId, tasks[s][i].arg)
                r == HandleInitLogic(sess[s], rows)
            IN  /\ sess' = [sess EXCEPT ![s] = r.ss]
                /\ pollers' = IF r.ret # "true"
                              THEN [pollers EXCEPT ![s] =
                                      Append(@, [attempts |-> 0, active |-> TRUE])]
                              ELSE pollers
                /\ hist' = [hist EXCEPT ![s].readPaid = @ \/ r.ret = "true"]
    /\ UNCHANGED <<purchases, books>>
    /\ UNCHANGED <<rcvd, proc, view>>

\* a tick of setInterval: attempts++ and the SELECT of handleInitLogic is issued
OnTick(s, k) ==
    /\ proc = "up"
    /\ k \in 1..Len(pollers[s])
    /\ pollers[s][k].active
    /\ CanPark(s)
    /\ pollers' = [pollers EXCEPT ![s][k].attempts = @ + 1]
    /\ tasks' = [tasks EXCEPT ![s] = Append(@, Task("POLL", "query", sess[s].userId, k))]
    /\ UNCHANGED <<purchases, books, sess, hist>>
    /\ UNCHANGED <<rcvd, proc, view>>

\* the ticks of one interval that are followed here
PollTick(s, k) ==
    /\ k \in 1..Len(pollers[s])
    /\ pollers[s][k].attempts < MaxTicks
    /\ OnTick(s, k)

\* the rest of the interval callback, from the result of handleInitLogic on.
\* The callback has no try: a failed SELECT is an unhandled rejection.
PollQuery(s, i, dbOk) ==
    /\ proc = "up"
    /\ i \in 1..Len(tasks[s])
    /\ tasks[s][i].kind = "POLL"
    /\ IF ~dbOk
       THEN /\ proc' = "down"
            /\ sess' = ExitedSess
            /\ tasks' = ExitedTasks(tasks)
            /\ pollers' = ExitedPollers
            /\ UNCHANGED hist
       ELSE LET k == tasks[s][i].poller
                rows == SelectPurchase(sess[s].purchaseId, tasks[s][i].arg)
                r == HandleInitLogic(sess[s], rows)
                pollSuccess == r.ret = "true"
                stop == pollSuccess \/ pollers[s][k].attempts >= maxAttempts
            IN  /\ sess' = [sess EXCEPT ![s] =
                              IF stop /\ ~pollSuccess
                              THEN wsClose(r.ss, 1011,
                                     "waiting for payment status update timeout.")
                              ELSE r.ss]
                /\ pollers' = IF stop
                              THEN [pollers EXCEPT ![s][k].active = FALSE]
                              ELSE pollers
                /\ hist' = [hist EXCEPT ![s].readPaid = @ \/ pollSuccess]
                /\ tasks' = [tasks EXCEPT ![s] = RemoveAt(@, i)]
                /\ UNCHANGED proc
    /\ UNCHANGED <<purchases, books, rcvd, view>>

\* groth16.verify(vkey, publicSignals, proof)
Groth16Verify(proof) == proof.ok

\* a handler that does not compare the commitment
CommitmentIgnored(ss, proof) == TRUE

\* publicSignals[2] !== sessionState.purchase.commitment, negated
CommitmentMatches(ss, proof) == proof.commitment = ss.purchase.commitment

\* the close reason of a conditional update that did not affect a row
UpdateFailureReason(res) ==
    IF res = "0" THEN "purchase record has been verified or used."
    ELSE IF res = "23505" THEN "proof has been used."
    ELSE "database final update error."

\* case 'ZKP_PROVE', up to the UPDATE being issued.  With sessionState.purchase
\* null the read of its commitment throws outside any try.
OnZkpProve(s, proof) ==
    /\ proc = "up"
    /\ Delivers(s)
    /\ view' = Seen(s, [InMsg("ZKP_PROVE") EXCEPT !.nullifier = proof.nullifier,
                      !.commitment = proof.commitment, !.ok = proof.ok])
    /\ LET ss == sess[s] IN
       IF ~ss.purchase.set
       THEN /\ proc' = "down"
            /\ sess' = ExitedSess
            /\ tasks' = ExitedTasks(tasks)
            /\ pollers' = ExitedPollers
            /\ UNCHANGED hist
       ELSE IF ~CommitmentMatches(ss, proof)
       THEN /\ sess' = [sess EXCEPT ![s] = wsClose(ss, 1011, "commitment mismatch.")]
            /\ UNCHANGED <<tasks, hist, pollers, proc>>
       ELSE IF ~Groth16Verify(proof)
       THEN /\ sess' = [sess EXCEPT ![s] = wsClose(ss, 1011, "ZKP verification failed.")]
            /\ hist' = [hist EXCEPT ![s].verifierCalls = @ + 1,
                                     ![s].verifierFailed = TRUE]
            /\ UNCHANGED <<tasks, pollers, proc>>
       ELSE /\ CanPark(s)
            /\ sess' = [sess EXCEPT ![s] = ss]
            /\ hist' = [hist EXCEPT ![s].verifierCalls = @ + 1]
            /\ tasks' = [tasks EXCEPT ![s] =
                           Append(@, Task("ZKP_PROVE", "update", proof, 0))]
            /\ UNCHANGED <<pollers, proc>>
    /\ UNCHANGED <<purchases, books>>

\* the 'message' listener is run for a ZKP_PROVE message
ReceiveZkpProve(s, proof) ==
    /\ rcvd["ZKP_PROVE"] < Budget("ZKP_PROVE")
    /\ rcvd' = [rcvd EXCEPT !["ZKP_PROVE"] = @ + 1]
    /\ OnZkpProve(s, proof)

\* case 'ZKP_PROVE': the conditional UPDATE runs and its result is handled
ZkpUpdate(s, i, dbOk) ==
    /\ proc = "up"
    /\ i \in 1..Len(tasks[s])
    /\ tasks[s][i].kind = "ZKP_PROVE" /\ tasks[s][i].pc = "update"
    /\ LET pid == sess[s].purchaseId
           n == tasks[s][i].arg.nullifier
           res == IF dbOk THEN UpdateVerifiedResult(pid, n) ELSE "error"
       IN  /\ purchases' = IF dbOk THEN UpdateVerifiedTable(pid, n) ELSE purchases
           /\ IF res = "1"
              THEN /\ tasks' = [tasks EXCEPT ![s][i].pc = "books"]
                   /\ hist' = [hist EXCEPT ![s].accepted = TRUE]
                   /\ UNCHANGED sess
              ELSE /\ tasks' = [tasks EXCEPT ![s] = RemoveAt(@, i)]
                   /\ sess' = [sess EXCEPT ![s] =
                                 wsClose(@, 1011, UpdateFailureReason(res))]
                   /\ hist' = [hist EXCEPT ![s].refused = TRUE]
    /\ UNCHANGED <<books, pollers>>
    /\ UNCHANGED <<rcvd, proc, view>>

\* sessionState.books = rows; sessionState.otSender = new SemiHonestOtSender(ws,
\* rows); ws.send(OT_START)
EngineStarted(ss, rows) ==
    wsSend([ss EXCEPT !.books = rows, !.otSender = SemiHonestOtSender(rows)],
           [type |-> "OT_START", numBooks |-> Len(rows)])

\* case 'ZKP_PROVE': the books are read, the engine is built, OT_START is sent
ZkpBooks(s, i, dbOk) ==
    /\ proc = "up"
    /\ i \in 1..Len(tasks[s])
    /\ tasks[s][i].kind = "ZKP_PROVE" /\ tasks[s][i].pc = "books"
    /\ tasks' = [tasks EXCEPT ![s] = RemoveAt(@, i)]
    /\ sess' = [sess EXCEPT ![s] =
          IF dbOk THEN EngineStarted(@, books)
          ELSE wsClose(@, 1011, "database final update error.")]
    /\ UNCHANGED <<purchases, books, pollers, hist>>
    /\ UNCHANGED <<rcvd, proc, view>>

\* case 'OT_ACK_START'
OnOtAckStart(s) ==
    /\ proc = "up"
    /\ Delivers(s)
    /\ view' = Seen(s, InMsg("OT_ACK_START"))
    /\ LET ss == sess[s] IN
       sess' = [sess EXCEPT ![s] = IF ss.otSender.created THEN start(ss) ELSE ss]
    /\ UNCHANGED <<purchases, books, tasks, pollers, hist>>
    /\ UNCHANGED proc

\* the 'message' listener is run for an OT_ACK_START message
ReceiveOtAckStart(s) ==
    /\ rcvd["OT_ACK_START"] < Budget("OT_ACK_START")
    /\ rcvd' = [rcvd EXCEPT !["OT_ACK_START"] = @ + 1]
    /\ OnOtAckStart(s)

\* case 'OT_ROUND_RESPONSE'
OnOtRoundResponse(s, round, clientPublicKey) ==
    /\ proc = "up"
    /\ Delivers(s)
    /\ view' = Seen(s, [InMsg("OT_ROUND_RESPONSE") EXCEPT !.round = round,
                      !.clientPublicKey = clientPublicKey])
    /\ LET ss == sess[s] IN
       sess' = [sess EXCEPT ![s] =
                  IF ss.otSender.created
                  THEN processRoundResponse(ss, round, clientPublicKey)
                  ELSE ss]
    /\ UNCHANGED <<purchases, books, tasks, pollers, hist>>
    /\ UNCHANGED proc

\* the 'message' listener is run for an OT_ROUND_RESPONSE message
ReceiveOtRoundResponse(s, round, clientPublicKey) ==
    /\ rcvd["OT_ROUND_RESPONSE"] < Budget("OT_ROUND_RESPONSE")
    /\ rcvd' = [rcvd EXCEPT !["OT_ROUND_RESPONSE"] = @ + 1]
    /\ OnOtRoundResponse(s, round, clientPublicKey)

\* case 'OT_ROUNDS_COMPLETE'
OnOtRoundsComplete(s) ==
    /\ proc = "up"
    /\ Delivers(s)
    /\ view' = Seen(s, InMsg("OT_ROUNDS_COMPLETE"))
    /\ LET ss == sess[s] IN
       sess' = [sess EXCEPT ![s] =
                  IF ss.otSender.created THEN sendFinalSecrets(ss) ELSE ss]
    /\ UNCHANGED <<purchases, books, tasks, pollers, hist>>
    /\ UNCHANGED proc

\* the 'message' listener is run for an OT_ROUNDS_COMPLETE message
ReceiveOtRoundsComplete(s) ==
    /\ rcvd["OT_ROUNDS_COMPLETE"] < Budget("OT_ROUNDS_COMPLETE")
    /\ rcvd' = [rcvd EXCEPT !["OT_ROUNDS_COMPLETE"] = @ + 1]
    /\ OnOtRoundsComplete(s)

\* case 'REQUEST_SIGNED_URL', up to the await of getSignedUrl
OnRequestSignedUrl(s, bookIndex) ==
    /\ proc = "up"
    /\ Delivers(s)
    /\ view' = Seen(s, [InMsg("REQUEST_SIGNED_URL") EXCEPT !.bookIndex = bookIndex])
    /\ LET ss == sess[s] IN
       IF bookIndex >= Len(ss.books)
       THEN /\ sess' = [sess EXCEPT ![s] = wsClose(ss, 1011, "invalid book index.")]
            /\ UNCHANGED tasks
       ELSE /\ CanPark(s)
            /\ sess' = [sess EXCEPT ![s] = ss]
            /\ tasks' = [tasks EXCEPT ![s] =
                  Append(@, Task("REQUEST_SIGNED_URL", "sign",
                                 ss.books[bookIndex + 1].file_key, 0))]
    /\ UNCHANGED <<purchases, books, pollers, hist>>
    /\ UNCHANGED proc

\* the 'message' listener is run for a REQUEST_SIGNED_URL message
ReceiveRequestSignedUrl(s, bookIndex) ==
    /\ rcvd["REQUEST_SIGNED_URL"] < Budget("REQUEST_SIGNED_URL")
    /\ rcvd' = [rcvd EXCEPT !["REQUEST_SIGNED_URL"] = @ + 1]
    /\ OnRequestSignedUrl(s, bookIndex)

\* case 'REQUEST_SIGNED_URL', from the result of getSignedUrl on
SignedUrl(s, i, ok) ==
    /\ proc = "up"
    /\ i \in 1..Len(tasks[s])
    /\ tasks[s][i].kind = "REQUEST_SIGNED_URL"
    /\ tasks' = [tasks EXCEPT ![s] = RemoveAt(@, i)]
    /\ sess' = [sess EXCEPT ![s] =
          IF ok
          THEN wsSend(@, [type |-> "SIGNED_URL", signedUrl |-> tasks[s][i].arg])
          ELSE wsClose(@, 1011, "failed to get download link.")]
    /\ UNCHANGED <<purchases, books, pollers, hist>>
    /\ UNCHANGED <<rcvd, proc, view>>

\* case 'DOWNLOAD_READY', up to the await of the UPDATE
OnDownloadReady(s) ==
    /\ proc = "up"
    /\ Delivers(s)
    /\ view' = Seen(s, InMsg("DOWNLOAD_READY"))
    /\ CanPark(s)
    /\ UNCHANGED sess
    /\ tasks' = [tasks EXCEPT ![s] = Append(@, Task("DOWNLOAD_READY", "update", 0, 0))]
    /\ UNCHANGED <<purchases, books, pollers, hist>>
    /\ UNCHANGED proc

\* the 'message' listener is run for a DOWNLOAD_READY message
ReceiveDownloadReady(s) ==
    /\ rcvd["DOWNLOAD_READY"] < Budget("DOWNLOAD_READY")
    /\ rcvd' = [rcvd EXCEPT !["DOWNLOAD_READY"] = @ + 1]
    /\ OnDownloadReady(s)

\* case 'DOWNLOAD_READY': the UPDATE runs and its result is handled
DownloadUpdate(s, i, dbOk) ==
    /\ proc = "up"
    /\ i \in 1..Len(tasks[s])
    /\ tasks[s][i].kind = "DOWNLOAD_READY"
    /\ tasks' = [tasks EXCEPT ![s] = RemoveAt(@, i)]
    /\ purchases' = IF dbOk THEN UpdateCompletedTable(sess[s].purchaseId) ELSE purchases
    /\ sess' = [sess EXCEPT ![s] =
          IF dbOk THEN wsClose(@, 1000, "purchase process completed.")
          ELSE wsClose(@, 1011, "database final update error.")]
    /\ UNCHANGED <<books, pollers, hist>>
    /\ UNCHANGED <<rcvd, proc, view>>

\* inputs that are not a well-formed message: a text that JSON.parse rejects,
\* and messages of the types that read data.payload, sent without a payload
MalformedKinds == {"unparsable", "ZKP_PROVE", "OT_ROUND_RESPONSE", "REQUEST_SIGNED_URL"}

\* the 'message' listener is run for such an input.  JSON.parse, the
\* destructuring of data.payload in case 'ZKP_PROVE' and the destructuring of
\* the payload in processRoundResponse throw outside any try; the destructuring
\* in case 'REQUEST_SIGNED_URL' throws inside its try.
OnMalformed(s, kind) ==
    /\ proc = "up"
    /\ Delivers(s)
    /\ LET ss == sess[s]
           throws == \/ kind \in {"unparsable", "ZKP_PROVE"}
                     \/ kind = "OT_ROUND_RESPONSE" /\ ss.otSender.created
       IN  IF throws
           THEN /\ proc' = "down"
                /\ sess' = ExitedSess
                /\ tasks' = ExitedTasks(tasks)
                /\ pollers' = ExitedPollers
           ELSE /\ sess' = [sess EXCEPT ![s] =
                      IF kind = "REQUEST_SIGNED_URL"
                      THEN wsClose(ss, 1011, "failed to get download link.")
                      ELSE ss]
                /\ UNCHANGED <<tasks, pollers, proc>>
    /\ UNCHANGED <<purchases, books, hist, rcvd, view>>

\* after the process has exited: a statement it had sent is executed by the store
\* (or was lost with the connection), and nobody handles its result
OrphanStatement(s, i, dbOk) ==
    /\ proc = "down"
    /\ i \in 1..Len(tasks[s])
    /\ tasks' = [tasks EXCEPT ![s] = RemoveAt(@, i)]
    /\ LET pid == sess[s].purchaseId
           isProve == tasks[s][i].kind = "ZKP_PROVE"
           n == IF isProve THEN tasks[s][i].arg.nullifier ELSE Null
       IN  /\ purchases' =
                IF ~dbOk THEN purchases
                ELSE IF isProve THEN UpdateVerifiedTable(pid, n)
                ELSE UpdateCompletedTable(pid)
           /\ hist' = IF dbOk /\ isProve
                      THEN [hist EXCEPT ![s].accepted =
                              @ \/ UpdateVerifiedResult(pid, n) = "1",
                                        ![s].refused =
                              @ \/ UpdateVerifiedResult(pid, n) # "1"]
                      ELSE hist
    /\ UNCHANGED <<books, sess, pollers, rcvd, proc, view>>

\* what a peer can put in the clientPublicKey of OT_ROUND_RESPONSE: a point whose
\* private key it knows, a point whose private key it does not know, no point
ClientKeys == {"known", "unknown", "invalid"}

TaskIdx == 1..MaxInflight

Next ==
    \/ \E s \in Sessions, pid \in PurchaseIds : Connect(s, pid)
    \/ \E s \in Sessions : ClientClose(s)
    \/ \E pid \in PurchaseIds, dbOk \in BOOLEAN : Webhook(pid, dbOk)
    \/ \E s \in Sessions, token \in Tokens : ReceiveInit(s, token)
    \/ \E s \in Sessions, i \in TaskIdx, dbOk \in BOOLEAN : InitQuery(s, i, dbOk)
    \/ \E s \in Sessions, k \in 1..MaxInit : PollTick(s, k)
    \/ \E s \in Sessions, i \in TaskIdx, dbOk \in BOOLEAN : PollQuery(s, i, dbOk)
    \/ \E s \in Sessions, proof \in Proofs : ReceiveZkpProve(s, proof)
    \/ \E s \in Sessions, i \in TaskIdx, dbOk \in BOOLEAN : ZkpUpdate(s, i, dbOk)
    \/ \E s \in Sessions, i \in TaskIdx, dbOk \in BOOLEAN : ZkpBooks(s, i, dbOk)
    \/ \E s \in Sessions : ReceiveDownloadReady(s)
    \/ \E s \in Sessions, i \in TaskIdx, dbOk \in BOOLEAN : DownloadUpdate(s, i, dbOk)
    \/ \E s \in Sessions, i \in TaskIdx, dbOk \in BOOLEAN : OrphanStatement(s, i, dbOk)

Spec == Init /\ [][Next]_vars

(***************************************************************************)
(* The OT phase on its own: one connection whose proof has been accepted   *)
(* and whose engine has just been built over a catalog of 0..MaxCatalog    *)
(* books, driven by a peer that may send any OT message at any time.       *)
(***************************************************************************)
Rounds == 0..CeilLog2(MaxCatalog)

\* the row of an order after the webhook has marked it paid
PaidRow(p) ==
    [user_id |-> OwnerOf(p), status |-> "paid", commitment |-> CommitmentOf(p)]

\* the session of the owner of purchase p after INIT has read the status paid
SessionAfterInit(p) ==
    HandleInitLogic([NewSession(p) EXCEPT !.userId = OwnerOf(p)], <<PaidRow(p)>>).ss

InitOT ==
    /\ purchases = [p \in PurchaseIds |->
                      [user_id |-> OwnerOf(p), status |-> "verified",
                       commitment |-> CommitmentOf(p),
                       nullifier_hash |-> IF p = "p1" THEN "n2" ELSE "n1"]]
    /\ \E n \in 0..MaxCatalog : books = Catalog(n)
    /\ sess = [s \in Sessions |->
                 IF s = 1 THEN EngineStarted(SessionAfterInit("p1"), books)
                 ELSE NoSession]
    /\ tasks = [s \in Sessions |-> << >>]
    /\ pollers = [s \in Sessions |-> << >>]
    /\ hist = [s \in Sessions |->
                 IF s = 1
                 THEN [NoHist EXCEPT !.ownerToken = TRUE, !.readPaid = TRUE,
                                     !.verifierCalls = 1, !.accepted = TRUE]
                 ELSE NoHist]
    /\ rcvd = [ty \in MsgTypes |-> 0]
    /\ proc = "up"
    /\ view = << >>

NextOT ==
    \/ \E s \in Sessions : ClientClose(s)
    \/ \E s \in Sessions : ReceiveOtAckStart(s)
    \/ \E s \in Sessions, round \in Rounds, clientPublicKey \in ClientKeys :
          ReceiveOtRoundResponse(s, round, clientPublicKey)
    \/ \E s \in Sessions : ReceiveOtRoundsComplete(s)

SpecOT == InitOT /\ [][NextOT]_vars

(***************************************************************************)
(* The key-request phase: one connection whose proof has been accepted and *)
(* whose engine has just been built over the catalog, driven by a peer     *)
(* that may acknowledge the OT start, declare the rounds complete, request *)
(* any key and acknowledge the download at any time.                       *)
(***************************************************************************)
BookIndexes == 0..MaxBooks

InitKey ==
    /\ purchases = [p \in PurchaseIds |->
                      [user_id |-> OwnerOf(p), status |-> "verified",
                       commitment |-> CommitmentOf(p),
                       nullifier_hash |-> IF p = "p1" THEN "n2" ELSE "n1"]]
    /\ books = Catalog(MaxBooks)
    /\ sess = [s \in Sessions |->
                 IF s = 1 THEN EngineStarted(SessionAfterInit("p1"), books)
                 ELSE NoSession]
    /\ tasks = [s \in Sessions |-> << >>]
    /\ pollers = [s \in Sessions |-> << >>]
    /\ hist = [s \in Sessions |->
                 IF s = 1
                 THEN [NoHist EXCEPT !.ownerToken = TRUE, !.readPaid = TRUE,
                                     !.verifierCalls = 1, !.accepted = TRUE]
                 ELSE NoHist]
    /\ rcvd = [ty \in MsgTypes |-> 0]
    /\ proc = "up"
    /\ view = << >>

NextKey ==
    \/ \E s \in Sessions : ClientClose(s)
    \/ \E s \in Sessions : ReceiveOtAckStart(s)
    \/ \E s \in Sessions : ReceiveOtRoundsComplete(s)
    \/ \E s \in Sessions, bookIndex \in BookIndexes : ReceiveRequestSignedUrl(s, bookIndex)
    \/ \E s \in Sessions, i \in TaskIdx, ok \in BOOLEAN : SignedUrl(s, i, ok)
    \/ \E s \in Sessions : ReceiveDownloadReady(s)
    \/ \E s \in Sessions, i \in TaskIdx, dbOk \in BOOLEAN : DownloadUpdate(s, i, dbOk)

SpecKey == InitKey /\ [][NextKey]_vars

(***************************************************************************)
(* The payment wait on its own: one connection for the order p1, which is  *)
(* pending, with every tick of its intervals followed; the webhook may     *)
(* mark the order paid, and the completion acknowledgement may overwrite   *)
(* its status, at any time.                                                *)
(***************************************************************************)
InitPoll ==
    /\ purchases = [p \in PurchaseIds |->
                      [user_id |-> OwnerOf(p), status |-> "pending",
                       commitment |-> CommitmentOf(p), nullifier_hash |-> Null]]
    /\ books = Catalog(MaxBooks)
    /\ sess = [s \in Sessions |-> IF s = 1 THEN NewSession("p1") ELSE NoSession]
    /\ tasks = [s \in Sessions |-> << >>]
    /\ pollers = [s \in Sessions |-> << >>]
    /\ hist = [s \in Sessions |-> NoHist]
    /\ rcvd = [ty \in MsgTypes |-> 0]
    /\ proc = "up"
    /\ view = << >>

NextPoll ==
    \/ \E s \in Sessions : ClientClose(s)
    \/ \E dbOk \in BOOLEAN : Webhook("p1", dbOk)
    \/ \E s \in Sessions, token \in Tokens : ReceiveInit(s, token)
    \/ \E s \in Sessions, i \in TaskIdx, dbOk \in BOOLEAN : InitQuery(s, i, dbOk)
    \/ \E s \in Sessions, k \in 1..MaxInit : OnTick(s, k)
    \/ \E s \in Sessions, i \in TaskIdx, dbOk \in BOOLEAN : PollQuery(s, i, dbOk)
    \/ \E s \in Sessions : ReceiveDownloadReady(s)
    \/ \E s \in Sessions, i \in TaskIdx, dbOk \in BOOLEAN : DownloadUpdate(s, i, dbOk)
    \/ \E s \in Sessions, i \in TaskIdx, dbOk \in BOOLEAN : OrphanStatement(s, i, dbOk)

SpecPoll == InitPoll /\ [][NextPoll]_vars

(***************************************************************************)
(* A connection for an order whose row holds the status failed, the value  *)
(* handleInitLogic expects besides pending, paid and completed.  No        *)
(* statement of the server writes it; the row is given.                    *)
(***************************************************************************)
InitFailed ==
    /\ purchases = [p \in PurchaseIds |->
                      [user_id |-> OwnerOf(p), status |-> "failed",
                       commitment |-> CommitmentOf(p), nullifier_hash |-> Null]]
    /\ books = Catalog(MaxBooks)
    /\ sess = [s \in Sessions |-> IF s = 1 THEN NewSession("p1") ELSE NoSession]
    /\ tasks = [s \in Sessions |-> << >>]
    /\ pollers = [s \in Sessions |-> << >>]
    /\ hist = [s \in Sessions |-> NoHist]
    /\ rcvd = [ty \in MsgTypes |-> 0]
    /\ proc = "up"
    /\ view = << >>

NextFailed ==
    \/ \E s \in Sessions : ClientClose(s)
    \/ \E dbOk \in BOOLEAN : Webhook("p1", dbOk)
    \/ \E s \in Sessions, token \in Tokens : ReceiveInit(s, token)
    \/ \E s \in Sessions, i \in TaskIdx, dbOk \in BOOLEAN : InitQuery(s, i, dbOk)
    \/ \E s \in Sessions, k \in 1..MaxInit : PollTick(s, k)
    \/ \E s \in Sessions, i \in TaskIdx, dbOk \in BOOLEAN : PollQuery(s, i, dbOk)
    \/ \E s \in Sessions, proof \in Proofs : ReceiveZkpProve(s, proof)
    \/ \E s \in Sessions : ReceiveOtAckStart(s)
    \/ \E s \in Sessions : ReceiveOtRoundsComplete(s)
    \/ \E s \in Sessions, bookIndex \in BookIndexes : ReceiveRequestSignedUrl(s, bookIndex)
    \/ \E s \in Sessions : ReceiveDownloadReady(s)
    \/ \E s \in Sessions, i \in TaskIdx, dbOk \in BOOLEAN : DownloadUpdate(s, i, dbOk)
    \/ \E s \in Sessions, i \in TaskIdx, dbOk \in BOOLEAN : OrphanStatement(s, i, dbOk)

SpecFailed == InitFailed /\ [][NextFailed]_vars

(***************************************************************************)
(* The proof phase on its own: the connection of the owner of the paid     *)
(* order p1 after INIT, driven by a peer that may submit proofs with any   *)
(* nullifier and commitment and acknowledge the download at any time,      *)
(* while the webhook may be delivered again.                               *)
(***************************************************************************)
ProofNullifiers == Nullifiers \cup {"n3"}

ProofInputs == [nullifier : ProofNullifiers, commitment : Commitments, ok : BOOLEAN]

InitProof ==
    /\ purchases = [p \in PurchaseIds |->
                      [user_id |-> OwnerOf(p),
                       status |-> IF p = "p1" THEN "paid" ELSE "verified",
                       commitment |-> CommitmentOf(p),
                       nullifier_hash |-> IF p = "p1" THEN Null ELSE "n1"]]
    /\ books = Catalog(MaxBooks)
    /\ sess = [s \in Sessions |->
                 IF s = 1 THEN SessionAfterInit("p1") ELSE NoSession]
    /\ tasks = [s \in Sessions |-> << >>]
    /\ pollers = [s \in Sessions |-> << >>]
    /\ hist = [s \in Sessions |->
                 IF s = 1
                 THEN [NoHist EXCEPT !.ownerToken = TRUE, !.readPaid = TRUE]
                 ELSE NoHist]
    /\ rcvd = [ty \in MsgTypes |-> 0]
    /\ proc = "up"
    /\ view = << >>

NextProof ==
    \/ \E s \in Sessions : ClientClose(s)
    \/ \E pid \in PurchaseIds, dbOk \in BOOLEAN : Webhook(pid, dbOk)
    \/ \E s \in Sessions, proof \in ProofInputs : ReceiveZkpProve(s, proof)
    \/ \E s \in Sessions, i \in TaskIdx, dbOk \in BOOLEAN : ZkpUpdate(s, i, dbOk)
    \/ \E s \in Sessions, i \in TaskIdx, dbOk \in BOOLEAN : ZkpBooks(s, i, dbOk)
    \/ \E s \in Sessions : ReceiveDownloadReady(s)
    \/ \E s \in Sessions, i \in TaskIdx, dbOk \in BOOLEAN : DownloadUpdate(s, i, dbOk)

SpecProof == InitProof /\ [][NextProof]_vars

(***************************************************************************)
(* The receiving peer, symbolically.  An ECDH secret is computable from    *)
(* either private key of the pair, so the peer opens a round ciphertext    *)
(* exactly when it knows the private key of the public key it sent for     *)
(* that round; the keys it can form are the exclusive-ors of seeds it has  *)
(* learned.                                                                *)
(***************************************************************************)
RECURSIVE XorAll(_)
XorAll(S) == IF S = {} THEN 0 ELSE LET x == CHOOSE y \in S : TRUE
                                   IN  Xor(x, XorAll(S \ {x}))

PeerOpens(blob) == blob.key.client = "known"

\* the seeds of round j the peer of connection s has learned
SeedsLearned(s, j) ==
    LET ch == {k \in 1..Len(sess[s].out) :
                  sess[s].out[k].type = "OT_ROUND_CHALLENGE" /\ sess[s].out[k].round = j}
    IN  {sess[s].out[k].e0.plaintext : k \in {x \in ch : PeerOpens(sess[s].out[x].e0)}}
        \cup
        {sess[s].out[k].e1.plaintext : k \in {x \in ch : PeerOpens(sess[s].out[x].e1)}}

PeerKeys(s) == {XorAll(S) : S \in SUBSET (UNION {SeedsLearned(s, j) : j \in Rounds})}

\* the positions of the OT_DELIVER messages of connection s the peer can decrypt
Decryptable(s) ==
    {i \in 1..Len(sess[s].books) :
        \E k \in 1..Len(sess[s].out), key \in PeerKeys(s) :
            /\ sess[s].out[k].type = "OT_DELIVER"
            /\ aesGcmDecrypt(key, sess[s].out[k].encryptedSecrets[i]).ok}

\* the seeds an ideal 1-out-of-2 transfer hands a receiver whose choice is c, and
\* the key the receiver forms from them
SeedsOfChoice(ot, c) ==
    {IF Bit(c, j) = 1 THEN ot.roundSeeds[j + 1].seed1 ELSE ot.roundSeeds[j + 1].seed0 :
        j \in 0..(ot.choiceBitCount - 1)}

KeyOfChoice(ot, c) == XorAll(SeedsOfChoice(ot, c))

\* C4: a peer whose public key, in every round the engine has answered, is one
\* whose private key it knows has learned at most one of the two seeds of each
\* round and can decrypt at most one of the ciphertexts of OT_DELIVER.
C4_AtMostOneSeedPerRound ==
    \A s \in Sessions :
        (\A k \in 1..Len(sess[s].out) :
            sess[s].out[k].type = "OT_ROUND_CHALLENGE"
            => (sess[s].out[k].e0.key.client = "known"
                /\ sess[s].out[k].e1.key.client = "known"))
        => /\ \A j \in Rounds : Cardinality(SeedsLearned(s, j)) <= 1
           /\ Cardinality(Decryptable(s)) <= 1

\* C6: for every catalog size N with b = ceil(log2 N) (0 for N <= 1), every
\* OT_DELIVER carries exactly N ciphertexts in catalog order; the ciphertext at
\* position i encrypts item i's secret under the exclusive-or of the seeds
\* selected by the bits of i; and for every choice c in [0, 2^b) the key formed
\* from exactly the seeds selected by the bits of c decrypts ciphertext c when
\* c < N and no other ciphertext.
C6_DeliverMatchesChoice ==
    \A s \in Sessions :
        sess[s].otSender.created =>
            LET ot == sess[s].otSender
                N == Len(sess[s].books)
                b == ot.choiceBitCount
            IN  /\ Pow2(b) >= N
                /\ b > 0 => (N > 1 /\ Pow2(b - 1) < N)
                /\ Len(ot.roundSeeds) = b
                /\ \A k \in 1..Len(sess[s].out) :
                      sess[s].out[k].type = "OT_DELIVER" =>
                         LET blobs == sess[s].out[k].encryptedSecrets IN
                         /\ Len(blobs) = N
                         /\ \A i \in 1..N :
                               /\ blobs[i].plaintext = sess[s].books[i].secret_key
                               /\ blobs[i].key = KeyOfChoice(ot, i - 1)
                         /\ \A c \in 0..(Pow2(b) - 1) :
                               /\ \A i \in 1..N :
                                     aesGcmDecrypt(KeyOfChoice(ot, c), blobs[i]).ok
                                     <=> (i - 1 = c)
                               /\ c < N =>
                                     aesGcmDecrypt(KeyOfChoice(ot, c), blobs[c + 1]).plaintext
                                     = sess[s].books[c + 1].secret_key

\* C6 witness: all three rounds of a catalog of five books have been answered and
\* OT_DELIVER has been sent with five ciphertexts
C6_Witness ==
    \E s \in Sessions :
        /\ Len(sess[s].books) = 5
        /\ sess[s].otSender.currentRound = 3
        /\ \E k \in 1..Len(sess[s].out) :
              /\ sess[s].out[k].type = "OT_DELIVER"
              /\ Len(sess[s].out[k].encryptedSecrets) = 5

(***************************************************************************)
(* Two buyers who follow the protocol, each on a connection for an order   *)
(* of its own that has been paid.  A buyer sends a message only in answer  *)
(* to the server's last message and sends each message once; the only      *)
(* thing it is free in is the index of the book it asks for.  Everything   *)
(* the server receives is recorded in view.                                *)
(***************************************************************************)
ServerSaid(s, ty) ==
    /\ Len(sess[s].out) > 0
    /\ sess[s].out[Len(sess[s].out)].type = ty

SeenCount(s, ty) == Cardinality({k \in 1..Len(view[s]) : view[s][k].type = ty})

\* the purchase and the proof of buyer s
PurchaseOf(s) == IF s = 1 THEN "p1" ELSE "p2"
ProofOf(s) ==
    [nullifier |-> IF s = 1 THEN "n1" ELSE "n2",
     commitment |-> CommitmentOf(PurchaseOf(s)), ok |-> TRUE]

HonestInit(s) ==
    /\ view[s] = << >>
    /\ OnInit(s, OwnerOf(PurchaseOf(s)))
    /\ UNCHANGED rcvd

HonestProve(s) ==
    /\ ServerSaid(s, "ZKP_READY")
    /\ SeenCount(s, "ZKP_PROVE") = 0
    /\ OnZkpProve(s, ProofOf(s))
    /\ UNCHANGED rcvd

HonestAckStart(s) ==
    /\ ServerSaid(s, "OT_START")
    /\ SeenCount(s, "OT_ACK_START") = 0
    /\ OnOtAckStart(s)
    /\ UNCHANGED rcvd

HonestRoundResponse(s) ==
    /\ ServerSaid(s, "OT_ROUND_START")
    /\ SeenCount(s, "OT_ROUND_RESPONSE") = sess[s].out[Len(sess[s].out)].round
    /\ OnOtRoundResponse(s, sess[s].out[Len(sess[s].out)].round, "known")
    /\ UNCHANGED rcvd

HonestRoundsComplete(s) ==
    /\ ServerSaid(s, "OT_ROUND_CHALLENGE")
    /\ SeenCount(s, "OT_ROUNDS_COMPLETE") = 0
    /\ OnOtRoundsComplete(s)
    /\ UNCHANGED rcvd

HonestRequestSignedUrl(s) ==
    /\ ServerSaid(s, "OT_DELIVER")
    /\ SeenCount(s, "REQUEST_SIGNED_URL") = 0
    /\ \E choice \in 0..(Len(sess[s].books) - 1) : OnRequestSignedUrl(s, choice)
    /\ UNCHANGED rcvd

HonestDownloadReady(s) ==
    /\ ServerSaid(s, "SIGNED_URL")
    /\ SeenCount(s, "DOWNLOAD_READY") = 0
    /\ OnDownloadReady(s)
    /\ UNCHANGED rcvd

InitHonest ==
    /\ purchases = [p \in PurchaseIds |->
                      [user_id |-> OwnerOf(p), status |-> "paid",
                       commitment |-> CommitmentOf(p), nullifier_hash |-> Null]]
    /\ books = Catalog(MaxBooks)
    /\ sess = [s \in Sessions |-> NewSession(PurchaseOf(s))]
    /\ tasks = [s \in Sessions |-> << >>]
    /\ pollers = [s \in Sessions |-> << >>]
    /\ hist = [s \in Sessions |-> NoHist]
    /\ rcvd = [ty \in MsgTypes |-> 0]
    /\ proc = "up"
    /\ view = [s \in Sessions |-> << >>]

NextHonest ==
    \/ \E s \in Sessions : HonestInit(s)
    \/ \E s \in Sessions, i \in TaskIdx, dbOk \in BOOLEAN : InitQuery(s, i, dbOk)
    \/ \E s \in Sessions : HonestProve(s)
    \/ \E s \in Sessions, i \in TaskIdx, dbOk \in BOOLEAN : ZkpUpdate(s, i, dbOk)
    \/ \E s \in Sessions, i \in TaskIdx, dbOk \in BOOLEAN : ZkpBooks(s, i, dbOk)
    \/ \E s \in Sessions : HonestAckStart(s)
    \/ \E s \in Sessions : HonestRoundResponse(s)
    \/ \E s \in Sessions : HonestRoundsComplete(s)
    \/ \E s \in Sessions : HonestRequestSignedUrl(s)
    \/ \E s \in Sessions, i \in TaskIdx, ok \in BOOLEAN : SignedUrl(s, i, ok)
    \/ \E s \in Sessions : HonestDownloadReady(s)
    \/ \E s \in Sessions, i \in TaskIdx, dbOk \in BOOLEAN : DownloadUpdate(s, i, dbOk)

SpecHonest == InitHonest /\ [][NextHonest]_vars

(***************************************************************************)
(* A peer that does not keep to the message formats or to the order of the *)
(* protocol: one connection of the owner of the paid order p1, from before *)
(* INIT on, on which any message, well formed or not, may arrive at any    *)
(* time.                                                                   *)
(***************************************************************************)
InitMalformed ==
    /\ purchases = [p \in PurchaseIds |->
                      [user_id |-> OwnerOf(p),
                       status |-> IF p = "p1" THEN "paid" ELSE "pending",
                       commitment |-> CommitmentOf(p), nullifier_hash |-> Null]]
    /\ books = Catalog(MaxBooks)
    /\ sess = [s \in Sessions |-> IF s = 1 THEN NewSession("p1") ELSE NoSession]
    /\ tasks = [s \in Sessions |-> << >>]
    /\ pollers = [s \in Sessions |-> << >>]
    /\ hist = [s \in Sessions |-> NoHist]
    /\ rcvd = [ty \in MsgTypes |-> 0]
    /\ proc = "up"
    /\ view = << >>

NextMalformed ==
    \/ \E s \in Sessions : ReceiveInit(s, OwnerOf(sess[s].purchaseId))
    \/ \E s \in Sessions, i \in TaskIdx, dbOk \in BOOLEAN : InitQuery(s, i, dbOk)
    \/ \E s \in Sessions : ReceiveZkpProve(s, ProofOf(s))
    \/ \E s \in Sessions, i \in TaskIdx, dbOk \in BOOLEAN : ZkpUpdate(s, i, dbOk)
    \/ \E s \in Sessions, i \in TaskIdx, dbOk \in BOOLEAN : ZkpBooks(s, i, dbOk)
    \/ \E s \in Sessions : ReceiveOtRoundResponse(s, 0, "known")
    \/ \E s \in Sessions : ReceiveRequestSignedUrl(s, 0)
    \/ \E s \in Sessions, i \in TaskIdx, ok \in BOOLEAN : SignedUrl(s, i, ok)
    \/ \E s \in Sessions, kind \in MalformedKinds : OnMalformed(s, kind)
    \/ \E s \in Sessions, i \in TaskIdx, dbOk \in BOOLEAN : OrphanStatement(s, i, dbOk)

SpecMalformed == InitMalformed /\ [][NextMalformed]_vars

(***************************************************************************)
(* The end-to-end run: the two buyers who follow the protocol, each on a   *)
(* connection for its own order, over a catalog of eight books, with the   *)
(* store and the URL signer answering every request.  The orders are       *)
(* pending until the webhook marks them paid, and a buyer sends INIT once   *)
(* its payment has been confirmed.  Every handler that can run eventually  *)
(* runs.                                                                   *)
(***************************************************************************)
EndToEndBooks == 8

\* the connections of the buyers, one for each order
Buyers == {s \in Sessions : s <= Cardinality(PurchaseIds)}

\* the buyer starts the purchase flow after its payment was confirmed
PaidInit(s) ==
    /\ purchases[PurchaseOf(s)].status = "paid"
    /\ HonestInit(s)

InitEndToEnd ==
    /\ purchases = [p \in PurchaseIds |->
                      [user_id |-> OwnerOf(p), status |-> "pending",
                       commitment |-> CommitmentOf(p), nullifier_hash |-> Null]]
    /\ books = Catalog(EndToEndBooks)
    /\ sess = [s \in Sessions |->
                 IF s \in Buyers THEN NewSession(PurchaseOf(s)) ELSE NoSession]
    /\ tasks = [s \in Sessions |-> << >>]
    /\ pollers = [s \in Sessions |-> << >>]
    /\ hist = [s \in Sessions |-> NoHist]
    /\ rcvd = [ty \in MsgTypes |-> 0]
    /\ proc = "up"
    /\ view = [s \in Sessions |-> << >>]

NextEndToEnd ==
    \/ \E pid \in PurchaseIds : Webhook(pid, TRUE)
    \/ \E s \in Buyers : PaidInit(s)
    \/ \E s \in Buyers, i \in TaskIdx : InitQuery(s, i, TRUE)
    \/ \E s \in Buyers : HonestProve(s)
    \/ \E s \in Buyers, i \in TaskIdx : ZkpUpdate(s, i, TRUE)
    \/ \E s \in Buyers, i \in TaskIdx : ZkpBooks(s, i, TRUE)
    \/ \E s \in Buyers : HonestAckStart(s)
    \/ \E s \in Buyers : HonestRoundResponse(s)
    \/ \E s \in Buyers : HonestRoundsComplete(s)
    \/ \E s \in Buyers : HonestRequestSignedUrl(s)
    \/ \E s \in Buyers, i \in TaskIdx : SignedUrl(s, i, TRUE)
    \/ \E s \in Buyers : HonestDownloadReady(s)
    \/ \E s \in Buyers, i \in TaskIdx : DownloadUpdate(s, i, TRUE)

SpecEndToEnd == InitEndToEnd /\ [][NextEndToEnd]_vars /\ WF_vars(NextEndToEnd)

\* a received message with the values the buyer draws at random blanked: the
\* nullifier and the commitment (hashes over a fresh nonce) and the round key
Blanked(m) == [m EXCEPT !.nullifier = "", !.commitment = "", !.clientPublicKey = ""]

\* the connection ran from INIT through DOWNLOAD_READY to the normal closure
Complete(s) ==
    /\ Len(view[s]) > 0
    /\ view[s][1].type = "INIT"
    /\ view[s][Len(view[s])].type = "DOWNLOAD_READY"
    /\ sess[s].closeReason = "purchase process completed."

\* C5: the server never learns which item the buyer selected: any two complete
\* sessions of buyers who follow the protocol, which differ only in the chosen
\* item index, give the server the same sequence of messages and payloads up to
\* the values drawn at random.
C5_ViewIndependentOfChoice ==
    \A s, r \in DOMAIN view :
        (Complete(s) /\ Complete(r))
        => /\ Len(view[s]) = Len(view[r])
           /\ \A k \in 1..Len(view[s]) : Blanked(view[s][k]) = Blanked(view[r][k])

(***************************************************************************)
(* Properties of the purchase flow.                                        *)
(***************************************************************************)
Sent(s, ty) == \E k \in 1..Len(sess[s].out) : sess[s].out[k].type = ty

\* C1: every change of a purchase's persisted status, by any operation in any
\* interleaving, goes from the exact predecessor status: pending to paid, paid
\* to verified, verified to completed.
C1_StatusFromPredecessor ==
    [][\A p \in PurchaseIds :
          purchases'[p].status # purchases[p].status =>
             <<purchases[p].status, purchases'[p].status>> \in
                {<<"pending", "paid">>, <<"paid", "verified">>,
                 <<"verified", "completed">>}]_vars

\* C2, as stated: whenever the update of a valid proof whose nullifier is
\* recorded on another purchase is executed for a session whose connection is
\* open, the session is closed with 'proof has been used.', nothing is sent, and
\* the session's own purchase is left as it was, paid and without nullifier.
C2_ReusedNullifierAlwaysAlreadyUsed ==
    [][\A s \in Sessions, i \in TaskIdx :
          (/\ ZkpUpdate(s, i, TRUE)
           /\ sess[s].conn = "open"
           /\ UniqueViolation(sess[s].purchaseId, tasks[s][i].arg.nullifier))
          => /\ sess'[s].conn # "open"
             /\ sess'[s].closeReason = "proof has been used."
             /\ sess'[s].out = sess[s].out
             /\ purchases' = purchases
             /\ purchases[sess[s].purchaseId].status = "paid"
             /\ purchases[sess[s].purchaseId].nullifier_hash = Null]_vars

\* C2, amended: no two purchases hold the same nullifier; the update of a valid
\* proof whose nullifier is recorded on another purchase sends nothing, leaves
\* the table unchanged and leaves the connection not open; and when it runs
\* while the session's own purchase is still paid and the connection is still
\* open, the close reason is 'proof has been used.'.
C2_ReusedNullifierRefused ==
    /\ [](\A p, q \in PurchaseIds :
            (p # q /\ purchases[p].nullifier_hash = purchases[q].nullifier_hash)
            => purchases[p].nullifier_hash = Null)
    /\ [][\A s \in Sessions, i \in TaskIdx :
            (/\ ZkpUpdate(s, i, TRUE)
             /\ UniqueViolation(sess[s].purchaseId, tasks[s][i].arg.nullifier))
            => /\ sess'[s].conn # "open"
               /\ sess'[s].out = sess[s].out
               /\ ~sess'[s].otSender.created \/ sess[s].otSender.created
               /\ purchases' = purchases
               /\ (purchases[sess[s].purchaseId].status = "paid"
                   /\ sess[s].conn = "open")
                  => /\ sess'[s].closeReason = "proof has been used."
                     /\ purchases'[sess[s].purchaseId].status = "paid"
                     /\ purchases'[sess[s].purchaseId].nullifier_hash = Null]_vars

\* C2 witness: a session was closed with 'proof has been used.' while its own
\* purchase is paid and has no nullifier, the nullifier being on another purchase
C2_Witness ==
    \E s \in Sessions :
        /\ sess[s].closeReason = "proof has been used."
        /\ hist[s].refused
        /\ purchases[sess[s].purchaseId].status = "paid"
        /\ purchases[sess[s].purchaseId].nullifier_hash = Null
        /\ \E q \in PurchaseIds : purchases[q].nullifier_hash # Null

\* C3, as stated: when two sessions for the same purchase have each passed Init
\* and each had the update of a valid proof executed without a store failure,
\* and no proof handler of either is still running, exactly one of them performed the transition and was
\* sent OT_START, and the other is closed and was never sent OT_START.
C3_ExactlyOneWinner ==
    \A s, r \in Sessions :
        (/\ s # r
         /\ sess[s].conn # "none" /\ sess[r].conn # "none"
         /\ sess[s].purchaseId = sess[r].purchaseId
         /\ hist[s].readPaid /\ hist[r].readPaid
         /\ hist[s].accepted \/ hist[s].refused
         /\ hist[r].accepted \/ hist[r].refused
         /\ \A x \in {s, r} : sess[x].closeReason # "database final update error."
         /\ \A x \in {s, r} : \A k \in 1..Len(tasks[x]) : tasks[x][k].kind # "ZKP_PROVE")
        => \E w \in {s, r} :
              /\ hist[w].accepted /\ Sent(w, "OT_START")
              /\ \A l \in {s, r} \ {w} :
                    /\ ~hist[l].accepted
                    /\ sess[l].conn # "open"
                    /\ ~Sent(l, "OT_START")

\* C3, amended: of the sessions for the same purchase at most one performs the
\* paid to verified transition; a session is sent OT_START only if it is that
\* one; and a session whose update of a valid proof affected no row is closed,
\* and was never sent OT_START unless another of its updates performed the
\* transition.
C3_AtMostOneWinner ==
    /\ \A s, r \in Sessions :
          (/\ s # r
           /\ sess[s].conn # "none" /\ sess[r].conn # "none"
           /\ sess[s].purchaseId = sess[r].purchaseId)
          => ~(hist[s].accepted /\ hist[r].accepted)
    /\ \A s \in Sessions :
          /\ Sent(s, "OT_START") => hist[s].accepted
          /\ hist[s].refused => sess[s].conn # "open"

\* C3 witness: two sessions for the same purchase passed Init and submitted valid
\* proofs; one performed the transition and was sent OT_START, the other's update
\* affected no row and it is closed without OT_START
C3_Witness ==
    \E s, r \in Sessions :
        /\ s # r
        /\ sess[s].purchaseId = sess[r].purchaseId
        /\ hist[s].readPaid /\ hist[r].readPaid
        /\ hist[s].accepted /\ Sent(s, "OT_START")
        /\ hist[r].refused /\ ~hist[r].accepted
        /\ sess[r].closeReason = "purchase record has been verified or used."
        /\ ~Sent(r, "OT_START")

\* C7: when a ZKP_PROVE carries public signals whose commitment entry differs
\* from the purchase's stored commitment, the session is closed without
\* groth16.verify being invoked, no OT_START is sent, no update is issued and the
\* purchase's persisted status and nullifier are unchanged.
C7_MismatchRejectedBeforeVerifier ==
    [][\A s \in Sessions, proof \in Proofs :
          (/\ OnZkpProve(s, proof)
           /\ proof.commitment # purchases[sess[s].purchaseId].commitment)
          => /\ sess'[s].conn # "open"
             /\ hist'[s].verifierCalls = hist[s].verifierCalls
             /\ sess'[s].out = sess[s].out
             /\ ~sess'[s].otSender.created \/ sess[s].otSender.created
             /\ Len(tasks'[s]) <= Len(tasks[s])
             /\ purchases' = purchases]_vars

\* C7 witness: a session that had passed Init was closed for a commitment mismatch
C7_Witness ==
    \E s \in Sessions :
        /\ hist[s].readPaid
        /\ sess[s].closeReason = "commitment mismatch."
        /\ hist[s].verifierCalls = 0

\* C8: a session is sent OT_START and has an OT engine only if one of its
\* conditional updates affected a row (which needs a matching commitment and a
\* verified proof); and once the verifier has failed, or an update of the session
\* affected no row or raised an error, the connection is closed and the session
\* has no OT engine.
C8_EngineOnlyAfterAccepted ==
    \A s \in Sessions :
        /\ (Sent(s, "OT_START") \/ sess[s].otSender.created)
           => (hist[s].accepted /\ hist[s].verifierCalls > 0)
        /\ (hist[s].verifierFailed \/ hist[s].refused)
           => (sess[s].conn # "open" /\ ~sess[s].otSender.created)

\* C9: ZKP_READY is sent on a connection only by the status read of an Init whose
\* token verified with the purchase's owner as subject, the read returning paid;
\* an Init with a token that does not verify, or that names another user, leaves
\* the connection closed and sends nothing.
C9_ReadyOnlyForOwnerAfterPaid ==
    /\ [](\A s \in Sessions :
            Sent(s, "ZKP_READY") => (hist[s].ownerToken /\ hist[s].readPaid))
    /\ [][\A s \in Sessions :
            /\ \A token \in {"bad", "nosub"} :
                  OnInit(s, token)
                  => (sess'[s].conn # "open" /\ sess'[s].out = sess[s].out)
            /\ \A i \in TaskIdx :
                  (/\ InitQuery(s, i, TRUE) \/ PollQuery(s, i, TRUE)
                   /\ tasks[s][i].arg # purchases[sess[s].purchaseId].user_id)
                  => (sess'[s].conn # "open" /\ sess'[s].out = sess[s].out)
            /\ \A i \in TaskIdx :
                  (/\ InitQuery(s, i, TRUE) \/ PollQuery(s, i, TRUE)
                   /\ sess'[s].out # sess[s].out)
                  => /\ tasks[s][i].arg = purchases[sess[s].purchaseId].user_id
                     /\ purchases[sess[s].purchaseId].status = "paid"]_vars

\* C9 witness: ZKP_READY was sent on one connection, and another connection was
\* closed because its token names a user who does not own the purchase
C9_Witness ==
    \E s, r \in Sessions :
        /\ Sent(s, "ZKP_READY")
        /\ sess[r].closeReason = "purchase record not found."
        /\ ~Sent(r, "ZKP_READY")

\* C10: no step taken for a connection that has not had an Init with a verified
\* token of the purchase's owner writes to the purchases table.
C10_NoWriteBeforeInit ==
    [][\A s \in Sessions :
          (/\ ~hist[s].ownerToken
           /\ tasks'[s] # tasks[s] \/ sess'[s] # sess[s])
          => purchases' = purchases]_vars

(***************************************************************************)
(* Properties of the key-request phase and of the completion.              *)
(***************************************************************************)
\* C11: a purchase's persisted status becomes completed only through a session
\* that has previously sent SIGNED_URL in that same session: the step that writes
\* completed is the final update of a session for that purchase whose output
\* already holds a SIGNED_URL.
C11_CompletedOnlyAfterSignedUrl ==
    [][\A p \in PurchaseIds :
          (purchases[p].status # "completed" /\ purchases'[p].status = "completed")
          => \E s \in Sessions, i \in TaskIdx :
                /\ DownloadUpdate(s, i, TRUE)
                /\ sess[s].purchaseId = p
                /\ Sent(s, "SIGNED_URL")]_vars

\* C12: when an OT_ROUND_RESPONSE carries a round index different from the
\* engine's currentRound, no OT_ROUND_CHALLENGE (nor anything else) is sent for
\* it, the engine and its round counter are unchanged and the connection is left
\* closed, with the round-mismatch reason when this message closed it; and
\* nothing is sent on a session whose connection is no longer open.
C12_RoundMismatchTerminates ==
    /\ [][\A s \in Sessions, round \in Rounds, clientPublicKey \in ClientKeys :
            (/\ OnOtRoundResponse(s, round, clientPublicKey)
             /\ sess[s].otSender.created
             /\ round # sess[s].otSender.currentRound)
            => /\ sess'[s].out = sess[s].out
               /\ sess'[s].otSender = sess[s].otSender
               /\ sess'[s].conn # "open"
               /\ sess[s].conn = "open"
                  => /\ sess'[s].closeCode = 1011
                     /\ sess'[s].closeReason = "[OT] round mismatch."]_vars
    /\ [][\A s \in Sessions :
            sess[s].conn # "open" => sess'[s].out = sess[s].out]_vars

\* C12 witness: a session whose engine had offered round 0 was closed for a round
\* mismatch, with the round counter where it was
C12_Witness ==
    \E s \in Sessions :
        /\ sess[s].otSender.created
        /\ sess[s].closeReason = "[OT] round mismatch."
        /\ Sent(s, "OT_ROUND_CHALLENGE")
        /\ sess[s].otSender.currentRound = 1
        /\ sess[s].otSender.choiceBitCount > 1

\* C13: in a session whose engine has b >= 1 rounds, OT_DELIVER is sent only
\* when the engine has processed the responses of all b rounds, its currentRound
\* being b; an OT_ROUNDS_COMPLETE received earlier produces no OT_DELIVER.
C13_DeliverOnlyAfterAllRounds ==
    [][\A s \in Sessions :
          (/\ Len(sess'[s].out) > Len(sess[s].out)
           /\ sess'[s].out[Len(sess'[s].out)].type = "OT_DELIVER"
           /\ sess[s].otSender.choiceBitCount >= 1)
          => sess[s].otSender.currentRound = sess[s].otSender.choiceBitCount]_vars

\* C14: OT_ROUND_START for round j+1 is sent only after the engine has accepted
\* the response of round j and sent the OT_ROUND_CHALLENGE of round j: in the
\* output every OT_ROUND_START of a round above 0 directly follows the
\* OT_ROUND_CHALLENGE of the round before it, and the round counter has reached
\* the round it offers.
C14_ChallengePrecedesNextBegin ==
    \A s \in Sessions : \A k \in 1..Len(sess[s].out) :
        (sess[s].out[k].type = "OT_ROUND_START" /\ sess[s].out[k].round >= 1)
        => /\ k > 1
           /\ sess[s].out[k - 1].type = "OT_ROUND_CHALLENGE"
           /\ sess[s].out[k - 1].round = sess[s].out[k].round - 1
           /\ sess[s].otSender.currentRound >= sess[s].out[k].round

\* C14 witness: rounds 1 and 2 have been offered
C14_Witness ==
    \E s \in Sessions : \E k, l \in 1..Len(sess[s].out) :
        /\ sess[s].out[k].type = "OT_ROUND_START" /\ sess[s].out[k].round = 1
        /\ sess[s].out[l].type = "OT_ROUND_START" /\ sess[s].out[l].round = 2

\* C15: a REQUEST_SIGNED_URL is answered with a SIGNED_URL only after the
\* session's engine has sent OT_DELIVER: every SIGNED_URL in the output comes
\* after an OT_DELIVER, so a key request arriving between OT_START and the
\* delivery is not answered with a SIGNED_URL.
C15_SignedUrlOnlyAfterDeliver ==
    \A s \in Sessions : \A l \in 1..Len(sess[s].out) :
        sess[s].out[l].type = "SIGNED_URL"
        => \E k \in 1..(l - 1) : sess[s].out[k].type = "OT_DELIVER"

\* C16: a REQUEST_SIGNED_URL whose index is outside [0, N) is rejected without
\* closing the connection and without changing the session or the purchases
\* table, so that a later request with a valid index on the same connection can
\* still be answered.
C16_InvalidIndexRecoverable ==
    [][\A s \in Sessions, bookIndex \in BookIndexes :
          (/\ OnRequestSignedUrl(s, bookIndex)
           /\ sess[s].conn = "open"
           /\ ~(bookIndex \in 0..(Len(sess[s].books) - 1)))
          => /\ sess'[s].conn = "open"
             /\ sess'[s].otSender = sess[s].otSender
             /\ sess'[s].books = sess[s].books
             /\ sess'[s].purchase = sess[s].purchase
             /\ purchases' = purchases]_vars

(***************************************************************************)
(* Properties of the payment wait.                                         *)
(***************************************************************************)
Timeout == "waiting for payment status update timeout."

\* C17: after an INIT that finds the purchase pending the session re-reads the
\* status at most maxAttempts times and then stops polling: no interval issues
\* more than maxAttempts reads; an INIT whose first read returns paid starts no
\* interval; and when a status read of a tick fails while no read has returned
\* paid, the server stays up and either the interval goes on with the
\* connection open, or the interval is stopped and the connection closed with
\* the timeout reason.
C17_PollBounded ==
    /\ [](\A s \in Sessions : \A k \in 1..Len(pollers[s]) :
            pollers[s][k].attempts <= maxAttempts)
    /\ [][\A s \in Sessions, i \in TaskIdx :
            (/\ InitQuery(s, i, TRUE)
             /\ sess'[s].out # sess[s].out)
            => pollers' = pollers]_vars
    /\ [][\A s \in Sessions, i \in TaskIdx :
            (/\ PollQuery(s, i, FALSE)
             /\ sess[s].conn = "open"
             /\ ~hist[s].readPaid)
            => /\ proc' = "up"
               /\ LET k == tasks[s][i].poller IN
                  \/ pollers'[s][k].active /\ sess'[s].conn = "open"
                  \/ /\ ~pollers'[s][k].active
                     /\ sess'[s].conn # "open"
                     /\ sess'[s].closeReason = Timeout]_vars

\* the read of parked handler i of connection s finds no purchase of the user,
\* or one whose status is neither paid nor pending
FatalRead(s, i) ==
    LET rows == SelectPurchase(sess[s].purchaseId, tasks[s][i].arg)
    IN  Len(rows) = 0 \/ ~(rows[1].status \in {"paid", "pending"})

\* C18: when the status read of an INIT or of a tick finds the purchase neither
\* paid nor pending, or not found for the user, the session is closed and reads
\* the status no further: the first check starts no interval, and a tick stops
\* its interval.
C18_FatalStatusStopsReads ==
    [][\A s \in Sessions, i \in TaskIdx :
          /\ (InitQuery(s, i, TRUE) /\ FatalRead(s, i))
             => (sess'[s].conn # "open" /\ pollers'[s] = pollers[s])
          /\ (PollQuery(s, i, TRUE) /\ FatalRead(s, i))
             => /\ sess'[s].conn # "open"
                /\ ~pollers'[s][tasks[s][i].poller].active]_vars

\* C19: if the connection closes while the payment-status interval is running,
\* the interval is cancelled: the close event leaves no interval of the session
\* active, and once the connection is closed with no interval active no further
\* status read is issued for the session and no message is sent on it.
C19_CloseCancelsPoller ==
    [][\A s \in Sessions :
          /\ ClientClose(s)
             => \A k \in 1..Len(pollers[s]) : ~pollers'[s][k].active
          /\ (/\ sess[s].conn = "closed"
              /\ \A k \in 1..Len(pollers[s]) : ~pollers[s][k].active)
             => /\ \A k \in 1..MaxInit : ~OnTick(s, k)
                /\ sess'[s].out = sess[s].out]_vars

\* C20: handling DOWNLOAD_READY sets the purchase's status to completed and
\* closes the connection with the normal-closure code 1000; when the final
\* update fails the connection is still closed, with the reason that reports
\* the update error, and the persisted status stays at its previous value.  The
\* codes are those of this handler when the connection was open as it closed it.
C20_CompletionClosesNormally ==
    [][\A s \in Sessions, i \in TaskIdx :
          /\ DownloadUpdate(s, i, TRUE)
             => /\ purchases'[sess[s].purchaseId].status = "completed"
                /\ \A p \in PurchaseIds \ {sess[s].purchaseId} :
                      purchases'[p] = purchases[p]
                /\ sess'[s].conn # "open"
                /\ sess[s].conn = "open"
                   => /\ sess'[s].closeCode = 1000
                      /\ sess'[s].closeReason = "purchase process completed."
          /\ DownloadUpdate(s, i, FALSE)
             => /\ purchases' = purchases
                /\ sess'[s].conn # "open"
                /\ sess[s].conn = "open"
                   => /\ sess'[s].closeCode = 1011
                      /\ sess'[s].closeReason = "database final update error."]_vars

\* C20 witness: a connection was closed with code 1000 by its completion
\* acknowledgement after a SIGNED_URL, and its purchase is completed
C20_Witness ==
    \E s \in Sessions :
        /\ Sent(s, "SIGNED_URL")
        /\ sess[s].closeCode = 1000
        /\ sess[s].closeReason = "purchase process completed."
        /\ purchases[sess[s].purchaseId].status = "completed"

(***************************************************************************)
(* Properties of the purchase record.                                      *)
(***************************************************************************)
\* the order of the status values: pending < paid < verified < completed
StatusRank(st) ==
    CASE st = "pending" -> 0
      [] st = "paid" -> 1
      [] st = "verified" -> 2
      [] st = "completed" -> 3
      [] OTHER -> -1

\* C21: over any interleaving of webhook deliveries and session messages a
\* purchase's persisted status never moves backward in the order pending < paid
\* < verified < completed; once completed it is never changed to another value.
C21_StatusNeverBackward ==
    [][\A p \in PurchaseIds :
          /\ StatusRank(purchases[p].status) >= 0
          /\ StatusRank(purchases'[p].status) >= StatusRank(purchases[p].status)
          /\ purchases[p].status = "completed"
             => purchases'[p].status = "completed"]_vars

\* C21 witness: a purchase went through paid and verified to completed
C21_Witness ==
    \E s \in Sessions :
        /\ hist[s].readPaid /\ hist[s].accepted
        /\ purchases[sess[s].purchaseId].status = "completed"

C23_NullifierWrittenOnce ==
    [][\A p \in PurchaseIds :
          purchases'[p].nullifier_hash # purchases[p].nullifier_hash
          => /\ purchases[p].nullifier_hash = Null
             /\ purchases[p].status = "paid"
             /\ purchases'[p].status = "verified"]_vars

\* C23 witness: a purchase holds the nullifier of the session's accepted proof,
\* and the update of a further proof of that session, with another nullifier, is
\* about to run
C23_Witness ==
    \E s \in Sessions : \E i \in 1..Len(tasks[s]) :
        /\ hist[s].accepted
        /\ purchases[sess[s].purchaseId].status = "verified"
        /\ purchases[sess[s].purchaseId].nullifier_hash # Null
        /\ tasks[s][i].kind = "ZKP_PROVE" /\ tasks[s][i].pc = "update"
        /\ tasks[s][i].arg.nullifier # purchases[sess[s].purchaseId].nullifier_hash
        /\ ~UniqueViolation(sess[s].purchaseId, tasks[s][i].arg.nullifier)

\* C24: after a purchase row is created no webhook delivery and no session
\* message changes its commitment: a commitment supplied by the client is only
\* compared with the stored one, never written, neither to the row nor to the
\* copy of the row the session holds.
C24_CommitmentImmutable ==
    /\ [][\A p \in PurchaseIds :
            purchases'[p].commitment = purchases[p].commitment]_vars
    /\ [](\A p \in PurchaseIds : purchases[p].commitment = CommitmentOf(p))
    /\ [](\A s \in Sessions :
            sess[s].purchase.set
            => sess[s].purchase.commitment = CommitmentOf(sess[s].purchaseId))

\* C24 witness: the session's proof was accepted, and a proof carrying another
\* commitment was then compared with the stored one and rejected
C24_Witness ==
    \E s \in Sessions :
        /\ hist[s].accepted
        /\ purchases[sess[s].purchaseId].status = "verified"
        /\ sess[s].closeReason = "commitment mismatch."

\* C25: after a session was terminated in the middle of the OT phase (its
\* connection no longer open after OT_START), a new connection for the same
\* purchase with a valid owner token re-executes from INIT towards the OT phase:
\* its status read, the store answering, leaves it open and sends it ZKP_READY.
C25_ReconnectRestartsOt ==
    [][\A s \in Sessions, i \in TaskIdx :
          (/\ InitQuery(s, i, TRUE)
           /\ sess[s].conn = "open"
           /\ tasks[s][i].arg = purchases[sess[s].purchaseId].user_id
           /\ \E r \in Sessions \ {s} :
                 /\ sess[r].purchaseId = sess[s].purchaseId
                 /\ Sent(r, "OT_START")
                 /\ sess[r].conn = "closed"
           /\ purchases[sess[s].purchaseId].status = "verified")
          => /\ sess'[s].conn = "open"
             /\ Len(sess'[s].out) = Len(sess[s].out) + 1
             /\ sess'[s].out[Len(sess'[s].out)].type = "ZKP_READY"]_vars

(***************************************************************************)
(* Properties of the end-to-end run.                                       *)
(***************************************************************************)
\* the types of the messages sent on connection s, in order
OutTypes(s) == [k \in 1..Len(sess[s].out) |-> sess[s].out[k].type]

\* the output of a complete run over eight books: three rounds, then the
\* delivery and the download reference
EndToEndTypes ==
    <<"ZKP_READY", "OT_START",
      "OT_ROUND_START", "OT_ROUND_CHALLENGE",
      "OT_ROUND_START", "OT_ROUND_CHALLENGE",
      "OT_ROUND_START", "OT_ROUND_CHALLENGE",
      "OT_DELIVER", "SIGNED_URL">>

\* connection s has been closed by its completion acknowledgement
Finished(s) ==
    /\ sess[s].conn # "open"
    /\ sess[s].closeCode = 1000
    /\ purchases[sess[s].purchaseId].status = "completed"

\* C26: end to end, with a client that follows the protocol, a purchase that
\* becomes paid, a valid proof with matching commitment and fresh nullifier,
\* and eight books: the session is sent ZKP_READY, the purchase becomes
\* verified with the proof's nullifier, exactly three OT rounds 0, 1, 2 are run
\* in order, OT_DELIVER carries eight ciphertexts, and after the key request
\* and the download acknowledgement the purchase is completed and the
\* connection closed with code 1000; every handler that can run being run,
\* this end is reached.
C26_EndToEnd ==
    /\ [](\A s \in Buyers :
            /\ \A k \in 1..Len(sess[s].out) :
                  /\ k <= Len(EndToEndTypes)
                  /\ sess[s].out[k].type = EndToEndTypes[k]
                  /\ k \in 3..8 => sess[s].out[k].round = (k - 3) \div 2
                  /\ k = 2 => sess[s].out[k].numBooks = 8
                  /\ k = 9 => Len(sess[s].out[k].encryptedSecrets) = 8
            /\ sess[s].otSender.created
               => (/\ sess[s].otSender.choiceBitCount = 3
                   /\ sess[s].otSender.currentRound <= 3)
            /\ Sent(s, "OT_START")
               => /\ purchases[PurchaseOf(s)].status \in {"verified", "completed"}
                  /\ purchases[PurchaseOf(s)].nullifier_hash = ProofOf(s).nullifier
            /\ sess[s].conn # "open"
               => (Finished(s) /\ OutTypes(s) = EndToEndTypes
                   /\ sess[s].otSender.currentRound = 3))
    /\ <>[](\A s \in Buyers : Finished(s) /\ OutTypes(s) = EndToEndTypes)

\* C26 witness: a connection has run to the normal closure after three rounds
C26_Witness ==
    \E s \in Buyers :
        /\ Finished(s)
        /\ OutTypes(s) = EndToEndTypes
        /\ sess[s].otSender.currentRound = 3
        /\ Len(view[s]) > 0 /\ view[s][Len(view[s])].type = "DOWNLOAD_READY"

(***************************************************************************)
(* Properties of the engine's setup.                                       *)
(***************************************************************************)
\* C27: when the catalog has at most one item the engine has no rounds and
\* holds no round seeds; starting it sends no OT_ROUND_START and at once an
\* OT_DELIVER with exactly as many ciphertexts as there are items.
C27_NoRoundsForSingleItem ==
    /\ [](\A s \in Sessions :
            (sess[s].otSender.created /\ Len(sess[s].books) <= 1)
            => /\ sess[s].otSender.choiceBitCount = 0
               /\ sess[s].otSender.roundSeeds = << >>
               /\ ~Sent(s, "OT_ROUND_START"))
    /\ [][\A s \in Sessions :
            (/\ OnOtAckStart(s)
             /\ sess[s].otSender.created
             /\ sess[s].conn = "open"
             /\ Len(sess[s].books) <= 1)
            => /\ Len(sess'[s].out) = Len(sess[s].out) + 1
               /\ sess'[s].out[Len(sess'[s].out)].type = "OT_DELIVER"
               /\ Len(sess'[s].out[Len(sess'[s].out)].encryptedSecrets)
                     = Len(sess[s].books)]_vars

\* C27 witness: over a catalog of one item the engine was started and has
\* delivered
C27_Witness ==
    \E s \in Sessions :
        /\ Len(sess[s].books) = 1
        /\ rcvd["OT_ACK_START"] = 1
        /\ rcvd["OT_ROUNDS_COMPLETE"] = 0
        /\ \E k \in 1..Len(sess[s].out) :
              /\ sess[s].out[k].type = "OT_DELIVER"
              /\ Len(sess[s].out[k].encryptedSecrets) = 1

\* C28: for every catalog size N the engine's number of rounds b is 0 when
\* N <= 1 and otherwise the least integer with 2^b >= N, so that every index in
\* [0, N) has a b-bit pattern of its own; and exactly b seed pairs are held.
C28_RoundCountIsCeilLog2 ==
    \A s \in Sessions :
        sess[s].otSender.created
        => LET N == Len(sess[s].books)
               b == sess[s].otSender.choiceBitCount
           IN  /\ N = Len(sess[s].otSender.bookSecrets)
               /\ b \in Nat
               /\ N <= 1 => b = 0
               /\ N > 1 => (Pow2(b) >= N /\ 2 * N > 2 * Pow2(b - 1))
               /\ \A i, j \in 0..(N - 1) :
                     i # j => \E k \in 0..(b - 1) : Bit(i, k) # Bit(j, k)
               /\ Len(sess[s].otSender.roundSeeds) = b

\* C28 witness: an engine over five items, a size that is no power of two, has
\* run its three rounds
C28_Witness ==
    \E s \in Sessions :
        /\ sess[s].otSender.created
        /\ Len(sess[s].books) = 5
        /\ sess[s].otSender.choiceBitCount = 3
        /\ sess[s].otSender.currentRound = 3

(***************************************************************************)
(* Properties of the handling of bad input.                                *)
(***************************************************************************)
\* C29: any malformed input from the peer (a message that does not parse, a
\* ZKP_PROVE, OT_ROUND_RESPONSE or REQUEST_SIGNED_URL without its payload, or
\* one sent before the state it needs exists) fails the session, which shows as
\* the close of its connection by the server, the server staying up; no such
\* input leaves the connection open.
C29_MalformedInputCloses ==
    [][\A s \in Sessions :
          sess[s].conn = "open"
          => /\ \A kind \in MalformedKinds :
                   OnMalformed(s, kind)
                   => (sess'[s].conn = "closing" /\ proc' = "up")
             /\ \A proof \in Proofs :
                   (OnZkpProve(s, proof) /\ ~sess[s].purchase.set)
                   => (sess'[s].conn = "closing" /\ proc' = "up")
             /\ \A clientPublicKey \in ClientKeys :
                   (/\ OnOtRoundResponse(s, 0, clientPublicKey)
                    /\ ~sess[s].otSender.created)
                   => sess'[s].conn = "closing"
             /\ \A bookIndex \in BookIndexes :
                   (OnRequestSignedUrl(s, bookIndex) /\ sess[s].books = << >>)
                   => sess'[s].conn = "closing"]_vars

\* C30: when the engine exists and an OT_ROUND_RESPONSE for the expected round,
\* whose seed pair exists, carries a public key that is no point of the curve,
\* the derivation of the shared secret throws: nothing is sent for the round
\* (no OT_ROUND_CHALLENGE, no OT_ROUND_START), the engine and its round counter
\* are unchanged, and the connection is left closed, with code 1011 and the
\* reason of the catch block when this message closed it.
C30_InvalidPointCloses ==
    [][\A s \in Sessions, round \in Rounds :
         (/\ OnOtRoundResponse(s, round, "invalid")
          /\ sess[s].otSender.created
          /\ round = sess[s].otSender.currentRound
          /\ round < Len(sess[s].otSender.roundSeeds))
         => /\ deriveServerSharedSecret(generateServerOtKeyPair(round, 0).privateKey,
                                        "invalid").threw
            /\ sess'[s].out = sess[s].out
            /\ sess'[s].otSender = sess[s].otSender
            /\ sess'[s].conn # "open"
            /\ sess[s].conn = "open"
               => /\ sess'[s].closeCode = 1011
                  /\ sess'[s].closeReason = "OT protocol processing failed."]_vars

\* a connection closed by the catch block of a later round, after the challenge
\* of an earlier round had been sent
C30_Witness ==
    \E s \in Sessions :
        /\ sess[s].conn = "closing"
        /\ sess[s].closeReason = "OT protocol processing failed."
        /\ sess[s].otSender.currentRound >= 1
        /\ Sent(s, "OT_ROUND_CHALLENGE")

\* C31: once OT_DELIVER has been sent on a connection, no step sends another
\* OT_ROUND_START, OT_ROUND_CHALLENGE or OT_DELIVER on it; in particular
\* OT_DELIVER is sent at most once per connection.
C31_DoneIsTerminal ==
    /\ [][\A s \in Sessions :
            Sent(s, "OT_DELIVER")
            => \A k \in Len(sess[s].out) + 1 .. Len(sess'[s].out) :
                  sess'[s].out[k].type \notin
                      {"OT_ROUND_START", "OT_ROUND_CHALLENGE", "OT_DELIVER"}]_vars
    /\ [](\A s \in Sessions :
            Cardinality({k \in 1..Len(sess[s].out) :
                           sess[s].out[k].type = "OT_DELIVER"}) <= 1)

\* C32: the close of a connection, in whatever state its session is, writes
\* nothing to the purchases table (status and nullifier of every row stay as
\* last committed), leaves every engine as it was and touches no other
\* connection; the engine of a session belongs to its connection alone: a new
\* connection starts without an engine, and the engine of a connection changes
\* only in a step of that connection's own handlers.
C32_CloseWritesNothing ==
    /\ [][\A s \in Sessions :
            ClientClose(s)
            => /\ purchases' = purchases
               /\ \A t \in Sessions : sess'[t].otSender = sess[t].otSender
               /\ \A t \in Sessions \ {s} : sess'[t] = sess[t]]_vars
    /\ [][\A s \in Sessions, pid \in PurchaseIds :
            Connect(s, pid) => sess'[s].otSender = NoSender]_vars
    /\ [][\A s \in Sessions :
            (sess[s].conn # "none" /\ sess'[s].otSender # sess[s].otSender)
            => \E i \in TaskIdx : ZkpBooks(s, i, TRUE)]_vars

\* a connection that was closed by its peer after its proof had been accepted
\* and its engine built: the order is still verified with its nullifier
C32_Witness ==
    \E s \in Sessions :
        /\ proc = "up"
        /\ sess[s].conn = "closed"
        /\ sess[s].otSender.created
        /\ purchases[sess[s].purchaseId].status = "verified"
        /\ purchases[sess[s].purchaseId].nullifier_hash # Null

\* C33: a statement issued by the handlers of a connection changes no row of
\* the purchases table but the one of the connection's own purchase id, and a
\* row changes only in a step of the webhook for that purchase or of a handler
\* of a connection for that purchase.
C33_WritesOwnPurchaseOnly ==
    /\ [][\A s \in Sessions, i \in TaskIdx, dbOk \in BOOLEAN :
            (ZkpUpdate(s, i, dbOk) \/ DownloadUpdate(s, i, dbOk)
               \/ OrphanStatement(s, i, dbOk))
            => \A p \in PurchaseIds \ {sess[s].purchaseId} :
                  purchases'[p] = purchases[p]]_vars
    /\ [][\A p \in PurchaseIds :
            purchases'[p] # purchases[p]
            => \/ Webhook(p, TRUE)
               \/ \E s \in Sessions, i \in TaskIdx :
                     /\ sess[s].purchaseId = p
                     /\ \/ ZkpUpdate(s, i, TRUE)
                        \/ DownloadUpdate(s, i, TRUE)
                        \/ OrphanStatement(s, i, TRUE)]_vars

\* two connections for different orders, each of which has written its own
\* row: the first had its proof accepted, the second acknowledged the download
C33_Witness ==
    \E s, t \in Sessions :
        /\ sess[s].purchaseId = "p1" /\ sess[t].purchaseId = "p2"
        /\ hist[s].accepted
        /\ purchases["p1"].status = "verified"
        /\ purchases["p2"].status = "completed"

\* the byte strings that decode to a point of the curve
CurvePoints == ClientKeys \ {"invalid"}

\* a session with the peer's key removed from the ciphertexts it was sent
KeyBlanked(ss) ==
    [ss EXCEPT !.out =
        [k \in 1..Len(ss.out) |->
            IF ss.out[k].type = "OT_ROUND_CHALLENGE"
            THEN [ss.out[k] EXCEPT !.e0.key.client = "", !.e1.key.client = ""]
            ELSE ss.out[k]]]

ChallengesOf(s, j) ==
    {k \in 1..Len(sess[s].out) :
        sess[s].out[k].type = "OT_ROUND_CHALLENGE" /\ sess[s].out[k].round = j}

\* C35: the round counter of an engine stays within 0..b; a connection is sent
\* at most one OT_ROUND_CHALLENGE per round and at most b in all; and a reply
\* for a round that was already answered, or any reply received when the
\* counter equals b, sends nothing, leaves the engine as it is and leaves the
\* connection closed.
C35_RoundCounterBounded ==
    /\ [](\A s \in Sessions :
            sess[s].otSender.created
            => /\ sess[s].otSender.currentRound \in 0..sess[s].otSender.choiceBitCount
               /\ \A j \in Rounds : Cardinality(ChallengesOf(s, j)) <= 1
               /\ Cardinality(UNION {ChallengesOf(s, j) : j \in Rounds})
                  <= sess[s].otSender.choiceBitCount)
    /\ [][\A s \in Sessions, round \in Rounds, clientPublicKey \in ClientKeys :
            (/\ OnOtRoundResponse(s, round, clientPublicKey)
             /\ sess[s].otSender.created
             /\ \/ round < sess[s].otSender.currentRound
                \/ sess[s].otSender.currentRound = sess[s].otSender.choiceBitCount)
            => /\ sess'[s].out = sess[s].out
               /\ sess'[s].otSender = sess[s].otSender
               /\ sess'[s].conn # "open"]_vars

\* every round of a catalog with three rounds has been answered once, and a
\* further reply, for the round after the last, closed the connection
C35_Witness ==
    \E s \in Sessions :
        /\ sess[s].otSender.choiceBitCount = 3
        /\ sess[s].otSender.currentRound = 3
        /\ \A j \in 0..2 : Cardinality(ChallengesOf(s, j)) = 1
        /\ sess[s].conn = "closing"
        /\ sess[s].closeReason = "[OT] round seed not found."

\* the positions of the OT_ROUND_START messages sent on s, and their indices in
\* the order they were sent
BeginsOf(s) == {k \in 1..Len(sess[s].out) : sess[s].out[k].type = "OT_ROUND_START"}

\* C36: the OT_ROUND_START messages sent on a connection carry the indices
\* 0, 1, ..., k in this order, none twice, and every OT_ROUND_CHALLENGE of a
\* round comes after the OT_ROUND_START of that round.
C36_BeginsInOrderBeforeChallenges ==
    \A s \in Sessions :
        /\ \A k \in BeginsOf(s) :
              sess[s].out[k].round = Cardinality({x \in BeginsOf(s) : x < k})
        /\ \A k \in 1..Len(sess[s].out) :
              sess[s].out[k].type = "OT_ROUND_CHALLENGE"
              => \E x \in BeginsOf(s) :
                    x < k /\ sess[s].out[x].round = sess[s].out[k].round

\* C37: ZKP_READY is sent at most once on a connection.
C37_ReadyAtMostOnce ==
    \A s \in Sessions :
        Cardinality({k \in 1..Len(sess[s].out) : sess[s].out[k].type = "ZKP_READY"}) <= 1

\* C38: when the order of a connection has become paid while an interval of the
\* connection is running, the connection is open and the interval has not
\* passed its last attempt, the next status read of the interval records the
\* purchase in the session, sends ZKP_READY, stops the interval and leaves the
\* connection open (in particular it is not closed with the timeout reason).
C38_PaidSeenAtNextRead ==
    [][\A s \in Sessions, i \in TaskIdx, dbOk \in BOOLEAN :
         (/\ PollQuery(s, i, dbOk)
          /\ sess[s].conn = "open"
          /\ purchases[sess[s].purchaseId].status = "paid"
          /\ pollers[s][tasks[s][i].poller].active
          /\ pollers[s][tasks[s][i].poller].attempts <= maxAttempts)
         => /\ proc' = "up"
            /\ sess'[s].conn = "open"
            /\ sess'[s].closeReason # Timeout
            /\ sess'[s].purchase.set
            /\ sess'[s].purchase.status = "paid"
            /\ sess'[s].out = Append(sess[s].out, [type |-> "ZKP_READY"])
            /\ ~pollers'[s][tasks[s][i].poller].active]_vars

\* C39: a delivery of the payment-succeeded event changes nothing but the status
\* of its own purchase, and that only from pending to paid: delivered for a
\* purchase that is already paid (a repeated delivery), verified or completed,
\* or when its statement fails, it leaves the whole table as it is, and
\* delivered for a pending purchase it leaves the table in a state in which
\* the same delivery would change nothing.
C39_WebhookGuardedIdempotent ==
    [][\A pid \in PurchaseIds, dbOk \in BOOLEAN :
         Webhook(pid, dbOk)
         => /\ \A p \in PurchaseIds \ {pid} : purchases'[p] = purchases[p]
            /\ purchases'[pid] = [purchases[pid] EXCEPT !.status = purchases'[pid].status]
            /\ purchases'[pid].status # purchases[pid].status
               => /\ dbOk
                  /\ purchases[pid].status = "pending"
                  /\ purchases'[pid].status = "paid"
            /\ (dbOk /\ purchases[pid].status = "pending")
               => purchases'[pid].status = "paid"
            /\ purchases[pid].status \in {"paid", "verified", "completed"}
               => purchases' = purchases]_vars

\* the order p1 was set to paid by the webhook and has since been verified and
\* completed, next to the verified order p2: further deliveries for either
\* meet a status that is not pending
C39_Witness ==
    /\ purchases["p1"].status = "completed"
    /\ purchases["p1"].nullifier_hash # Null
    /\ purchases["p2"].status = "verified"
    /\ proc = "up"

====
